---- MODULE Spec2Model ----
(***************************************************************************)
(* Verification model of the analysis-pipeline engine of edu-data/mas:     *)
(*   - backend/app/api/agents.py        (pipeline_store, background task)  *)
(*   - backend/app/core/agent_message_bus.py  (AgentMessageBus)            *)
(*   - core/agents/orchestrator.py      (AgentOrchestrator; the file is    *)
(*     not part of the source tree, its behaviour follows spec.md 4.1)     *)
(*   - backend/app/core/realtime_feedback.py  (ConnectionManager)          *)
(*   - core/analyzers/timelapse_analyzer.py   (run_turbo_analysis)         *)
(*   - core/analyzers/parallel_analyzer.py    (ParallelFrameAnalyzer)      *)
(***************************************************************************)
EXTENDS Integers, Sequences, FiniteSets, TLC

VARIABLES
    \* ---- backend/app/api/agents.py ----
    pipeline_store,     \* pipeline id -> record of the run (in-memory dict)
    http_response,      \* what POST /analyze answered: "none", "404", "queued"
    pc,                 \* position of the background task run_agent_pipeline
    exc,                \* exception that left run_pipeline ("none" when none)
    \* ---- AgentOrchestrator (one instance per background task) ----
    registry,           \* agent name -> [phase, dependencies]
    orch_status,        \* PipelineRun.status held by the orchestrator
    agents,             \* agent name -> AgentRunRecord.state
    outputs,            \* agent name -> output kept for dependants
    inputs,             \* agent name -> what run() received, by dependency
    phase_idx,          \* index in PhaseOrder of the phase being executed
    policy,             \* phase -> "fallback" | "fatal" | "unset"
    listeners,          \* number of callbacks registered with orch.on_event
    \* ---- AgentMessageBus singleton ----
    event_history,      \* _event_history
    pipeline_events,    \* _pipeline_events: pipeline id -> sequence of events
    subscribers,        \* _subscribers: event type -> sequence of callbacks
    clock,              \* datetime.now() as a logical clock
    delivered,          \* callback invocations made by publish, in order
    \* ---- callers of the bus ----
    published,          \* events published since the last clear_history
    bus_calls,          \* number of calls made by the callers
    published_to,       \* pipeline id each event of published was given
    returned,           \* what the last call on the bus returned
    \* ---- ConnectionManager (backend/app/core/realtime_feedback.py) ----
    active_connections, \* analysis id -> set of websockets
    sent,               \* send_text calls made by send_progress, in order
    send_exc,           \* exception that left the last send_progress
    sp,                 \* the send_progress coroutine suspended in a send
    \* ---- core/analyzers: timelapse_analyzer.py, parallel_analyzer.py ----
    analyzer,           \* the analyzer the caller uses: "timelapse" | "parallel"
    video,              \* the input video: frames, failing frames, audio track
    env,                \* the machine: cpu_count, MEDIAPIPE/LIBROSA_AVAILABLE, use_gpu
    extract,            \* flash_extract_resources: position, processes, files, result
    turbo,              \* run_turbo_analysis: position, chunks, results, timelines
    workers,            \* pool worker -> the task it runs and its position in it
    pf,                 \* ParallelFrameAnalyzer.analyze_frames: position and results
    sizing,             \* the chunk sizing of run_turbo_analysis on its own
    \* ---- AnalysisProgressTracker (backend/app/core/realtime_feedback.py) ----
    tracker,            \* the tracker of one analysis: stage, percent, notes, last call
    payloads,           \* the dicts handed to manager.send_progress, in order
    \* ---- the bus under concurrent callers: objects and threads ----
    lists,              \* the list objects: object id -> contents
    history_ref,        \* the list object self._event_history is bound to
    subs_map,           \* self._subscribers: event type -> list object
    th,                 \* thread -> its call and its position in it
    lin_init,           \* history and subscriber map before the calls
    \* ---- get_message_bus() under concurrent callers ----
    instance,           \* AgentMessageBus._instance
    initialized,        \* _initialized of the instance
    gth                 \* thread -> position in get_message_bus / result

pipeVars == <<pipeline_store, http_response, pc, exc>>
orchVars == <<registry, orch_status, agents, outputs, inputs, phase_idx, policy, listeners>>
busVars  == <<event_history, pipeline_events, subscribers, clock, delivered>>
callerVars == <<published, bus_calls, published_to, returned>>
connVars == <<active_connections, sent, send_exc, sp>>
analyzerVars == <<analyzer, video, env, extract, turbo, workers, pf, sizing>>
threadVars == <<lists, history_ref, subs_map, th, lin_init>>
singletonVars == <<instance, initialized, gth>>
trackerVars == <<tracker, payloads>>
vars     == <<pipeVars, orchVars, busVars, callerVars, threadVars, singletonVars,
             connVars, analyzerVars, trackerVars>>

\* what the steps of the pipeline run leave alone
notPipeline == <<callerVars, threadVars, singletonVars, connVars, analyzerVars, trackerVars>>
\* what sequential calls on the bus leave alone
notBus == <<pipeVars, orchVars, threadVars, singletonVars, connVars, analyzerVars,
           trackerVars>>

----------------------------------------------------------------------------
(* Small helpers *)

Range(s) == {s[i] : i \in 1..Len(s)}

Min(a, b) == IF a <= b THEN a ELSE b
Max(a, b) == IF a >= b THEN a ELSE b

\* python s[-n:] for n >= 1
LastN(s, n) == IF Len(s) <= n THEN s ELSE SubSeq(s, Len(s) - n + 1, Len(s))

\* python s[:n]
FirstN(s, n) == IF Len(s) <= n THEN s ELSE SubSeq(s, 1, n)

\* python s[start:] for any integer start (a negative start counts from the
\* end, and -0 is 0)
SliceFrom(s, start) ==
    LET i == IF start < 0
             THEN (IF Len(s) + start < 0 THEN 0 ELSE Len(s) + start)
             ELSE (IF start > Len(s) THEN Len(s) ELSE start)
    IN  SubSeq(s, i + 1, Len(s))

----------------------------------------------------------------------------
(* AgentMessageBus *)

max_history == 1000

AgentEvent(event_type, agent_name, timestamp, data) ==
    [event_type |-> event_type, agent_name |-> agent_name,
     timestamp |-> timestamp, data |-> data]

HistoryAfterPublish_keepOldest(history, event) ==
    LET h == Append(history, event)
    IN  IF Len(h) > max_history THEN FirstN(h, max_history) ELSE h

\* publish, lines 66-68: append, then trim to the last _max_history events
HistoryAfterPublish(history, event) ==
    LET h == Append(history, event)
    IN  IF Len(h) > max_history THEN LastN(h, max_history) ELSE h

PipelineEventsAfterPublish_newestOnly(pe, pipeline_id, event) ==
    IF pipeline_id = "None" THEN pe
    ELSE IF pipeline_id \notin DOMAIN pe
         THEN pe @@ (pipeline_id :> <<event>>)
         ELSE [pe EXCEPT ![pipeline_id] = <<event>>]

\* publish, lines 70-73: append to the run's log when a pipeline id is given
PipelineEventsAfterPublish(pe, pipeline_id, event) ==
    IF pipeline_id = "None" THEN pe
    ELSE IF pipeline_id \notin DOMAIN pe
         THEN pe @@ (pipeline_id :> <<event>>)
         ELSE [pe EXCEPT ![pipeline_id] = Append(@, event)]

\* AgentEvent.to_dict, lines 18-24
to_dict(e) ==
    [event_type |-> e.event_type, agent_name |-> e.agent_name,
     timestamp |-> e.timestamp, data |-> e.data]

\* get_pipeline_events
get_pipeline_events(pipeline_id) ==
    IF pipeline_id \in DOMAIN pipeline_events THEN pipeline_events[pipeline_id] ELSE <<>>

\* get_history, lines 104-109, on the history it is given ("None": no filter)
HistoryQuery(history, limit, agent_name, event_type) ==
    LET by_agent == IF agent_name # "None"
                    THEN SelectSeq(history, LAMBDA e : e.agent_name = agent_name)
                    ELSE history
        by_type == IF event_type # "None"
                   THEN SelectSeq(by_agent, LAMBDA e : e.event_type = event_type)
                   ELSE by_agent
        events == SliceFrom(by_type, 0 - limit)
    IN  [i \in 1..Len(events) |-> to_dict(events[i])]

\* subscribe, lines 91-93
SubscribersAfterSubscribe(subs, event_type, callback) ==
    IF event_type \notin DOMAIN subs
    THEN subs @@ (event_type :> <<callback>>)
    ELSE [subs EXCEPT ![event_type] = Append(@, callback)]

\* unsubscribe, lines 97-100
SubscribersAfterUnsubscribe(subs, event_type, callback) ==
    IF event_type \in DOMAIN subs
    THEN [subs EXCEPT ![event_type] = SelectSeq(@, LAMBDA cb : cb # callback)]
    ELSE subs

\* self._subscribers.get(key, [])
SubscribersGet(subs, key) == IF key \in DOMAIN subs THEN subs[key] ELSE <<>>

Callbacks == {"cb1", "cb2"}
\* the callbacks that raise when called (a broken observer)
RaisingCallbacks == {"cb2"}

\* what a callback finds when it is called: the event is the newest entry of
\* the history and, when a pipeline id was given, of that run's log
EventRecorded(history, pe, pipeline_id, event) ==
    /\ Len(history) > 0
    /\ history[Len(history)] = event
    /\ pipeline_id # "None" =>
          /\ pipeline_id \in DOMAIN pe
          /\ Len(pe[pipeline_id]) > 0
          /\ pe[pipeline_id][Len(pe[pipeline_id])] = event

Deliveries_wildcardFirst(subs, event, recorded) ==
    LET cbs == SubscribersGet(subs, "*") \o SubscribersGet(subs, event.event_type)
    IN  [i \in 1..Len(cbs) |->
            [callback |-> cbs[i], event |-> event, recorded |-> recorded,
             raised |-> cbs[i] \in RaisingCallbacks]]

\* publish, lines 75-87: the callbacks of the event's type, then the wildcard
\* ones; an exception of a callback is swallowed.  recorded tells whether
\* lines 66-73 had recorded the event when the callbacks were called
Deliveries(subs, event, recorded) ==
    LET cbs == SubscribersGet(subs, event.event_type) \o SubscribersGet(subs, "*")
    IN  [i \in 1..Len(cbs) |->
            [callback |-> cbs[i], event |-> event, recorded |-> recorded,
             raised |-> cbs[i] \in RaisingCallbacks]]

\* publish(agent_name, event_type, data, pipeline_id), lines 57-87: what one
\* call does to the bus
BusPublish(agent_name, event_type, data, pipeline_id) ==
    LET event == AgentEvent(event_type, agent_name, clock, data)
        history == HistoryAfterPublish(event_history, event)
        pe == PipelineEventsAfterPublish(pipeline_events, pipeline_id, event)
    IN  /\ event_history' = history
        /\ pipeline_events' = pe
        /\ delivered' = delivered \o
              Deliveries(subscribers, event, EventRecorded(history, pe, pipeline_id, event))
        /\ clock' = clock + 1
        /\ UNCHANGED subscribers

----------------------------------------------------------------------------
(* Agent registry *)

pipeline_phases_pedagogyInAnalyze ==
    << [phase |-> "extract",    agents |-> <<"extractor">>,                      parallel |-> FALSE],
       [phase |-> "analyze",    agents |-> <<"vision", "content", "stt", "vibe", "pedagogy">>,
                                                                                 parallel |-> TRUE],
       [phase |-> "evaluate",   agents |-> <<>>,                                 parallel |-> FALSE],
       [phase |-> "feedback",   agents |-> <<"feedback">>,                       parallel |-> FALSE],
       [phase |-> "synthesize", agents |-> <<"master">>,                         parallel |-> FALSE] >>

\* agents.py, get_agent_registry: the phase table of the pipeline
pipeline_phases ==
    << [phase |-> "extract",    agents |-> <<"extractor">>,                      parallel |-> FALSE],
       [phase |-> "analyze",    agents |-> <<"vision", "content", "stt", "vibe">>, parallel |-> TRUE],
       [phase |-> "evaluate",   agents |-> <<"pedagogy">>,                       parallel |-> FALSE],
       [phase |-> "feedback",   agents |-> <<"feedback">>,                       parallel |-> FALSE],
       [phase |-> "synthesize", agents |-> <<"master">>,                         parallel |-> FALSE] >>

NumPhases == Len(pipeline_phases)
PhaseOrder == [i \in 1..NumPhases |-> pipeline_phases[i].phase]
Phases == Range(PhaseOrder)
IsParallel(ph) == \E i \in 1..NumPhases : pipeline_phases[i].phase = ph /\ pipeline_phases[i].parallel
PhaseIndex(ph) == CHOOSE i \in 1..NumPhases : pipeline_phases[i].phase = ph

\* declared order of the agents (registration order)
AgentOrder == <<"extractor", "vision", "content", "stt", "vibe", "pedagogy", "scorer", "feedback", "master">>
OrderOf(a) == CHOOSE i \in 1..Len(AgentOrder) : AgentOrder[i] = a

\* declared dependencies of the eight registered agents
DefaultDependencies(a) ==
    CASE a = "extractor" -> {}
      [] a \in {"vision", "content", "stt", "vibe"} -> {"extractor"}
      [] a = "pedagogy" -> {"vision", "content", "stt", "vibe"}
      [] a = "feedback" -> {"pedagogy"}
      [] a = "master"   -> {"pedagogy", "feedback"}

\* the registry the orchestrator builds: the members of pipeline_phases
DefaultRegistry ==
    LET names == UNION {Range(pipeline_phases[i].agents) : i \in 1..NumPhases}
        phaseOf(a) == pipeline_phases[CHOOSE i \in 1..NumPhases :
                                         a \in Range(pipeline_phases[i].agents)].phase
    IN  [a \in names |-> [phase |-> phaseOf(a), dependencies |-> DefaultDependencies(a)]]

\* the four-agent registry of the scenario of spec.md section 8
ScenarioRegistry ==
    [a \in {"extractor", "vision", "content", "scorer"} |->
        CASE a = "extractor" -> [phase |-> "extract",  dependencies |-> {}]
          [] a = "scorer"    -> [phase |-> "evaluate", dependencies |-> {"vision", "content"}]
          [] OTHER           -> [phase |-> "analyze",  dependencies |-> {"extractor"}]]

\* registries that must be rejected
CyclicRegistry ==
    [ScenarioRegistry EXCEPT !["extractor"].dependencies = {"scorer"}]
SelfCyclicRegistry ==
    [ScenarioRegistry EXCEPT !["content"].dependencies = {"extractor", "content"}]
UndeclaredRegistry ==
    [ScenarioRegistry EXCEPT !["scorer"].dependencies = {"vision", "content", "stt"}]

Registries ==
    {DefaultRegistry, ScenarioRegistry, CyclicRegistry, SelfCyclicRegistry, UndeclaredRegistry}

RECURSIVE DependencyClosure(_, _, _)
DependencyClosure(reg, S, n) ==
    IF n = 0 THEN S
    ELSE DependencyClosure(reg,
            S \cup UNION {reg[a].dependencies : a \in S \cap DOMAIN reg}, n - 1)

HasUndeclaredDependency(reg) ==
    \E a \in DOMAIN reg : ~(reg[a].dependencies \subseteq DOMAIN reg)

HasCycle(reg) ==
    \E a \in DOMAIN reg :
        a \in DependencyClosure(reg, reg[a].dependencies, Cardinality(DOMAIN reg))

ValidRegistry_acceptAll(reg) == TRUE

\* registration-time check: no cycle, no undeclared dependency
ValidRegistry(reg) == ~HasCycle(reg) /\ ~HasUndeclaredDependency(reg)

PhaseMembers(reg, ph) == {a \in DOMAIN reg : reg[a].phase = ph}

----------------------------------------------------------------------------
(* AgentOrchestrator: the scheduler of spec.md 4.1 *)

\* at most MaxErrors agents raise in one run
MaxErrors == 1

Finalized(ag, a) == ag[a] \in {"done", "error"}

MayRaise(ag) == Cardinality({a \in DOMAIN ag : ag[a] = "error"}) < MaxErrors

\* get_pipeline_status(): the summary the on_event callback copies
get_pipeline_status(st, ag) ==
    [status   |-> st,
     progress |-> IF DOMAIN ag = {} THEN 0
                  ELSE (100 * Cardinality({a \in DOMAIN ag : Finalized(ag, a)}))
                          \div Cardinality(DOMAIN ag),
     agents   |-> ag]

\* the inputs handed to an agent: the outputs of its declared dependencies
InputsFor(reg, out, a) ==
    [d \in reg[a].dependencies |-> IF d \in DOMAIN out THEN out[d] ELSE "missing"]

CurrentPhase == PhaseOrder[phase_idx]

\* barrier: every member of the phase has completed or failed
PhaseClosed(reg, ag, ph) ==
    \A a \in PhaseMembers(reg, ph) : Finalized(ag, a)

\* an agent of the current phase may be started: any idle member of a
\* parallel phase; in a sequential phase the first idle member in declared
\* order, and only while no other member is running
MayStart(reg, ag, ph, a) ==
    /\ a \in PhaseMembers(reg, ph)
    /\ ag[a] = "idle"
    /\ \/ IsParallel(ph)
       \/ /\ \A b \in PhaseMembers(reg, ph) : ag[b] # "running"
          /\ \A b \in PhaseMembers(reg, ph) : ag[b] = "idle" => OrderOf(a) <= OrderOf(b)

----------------------------------------------------------------------------
(* backend/app/api/agents.py *)

PipelineId == "p1"

\* start_agent_analysis, lines 107-115
NewRun(pipeline_id) ==
    [id |-> pipeline_id, status |-> "queued", progress |-> 0, video_path |-> "video",
     created_at |-> "now", agents |-> <<>>, result |-> "None",
     error |-> "absent", completed_at |-> "absent"]

SetStatus_toCompleted(store, pipeline_id, value) ==
    [store EXCEPT ![pipeline_id].status = "completed"]

\* pipeline_store[pipeline_id]["status"] = value
SetStatus(store, pipeline_id, value) ==
    [store EXCEPT ![pipeline_id].status = value]

StoreAfterEvent_resetsStatus(store, pipeline_id, status) ==
    [store EXCEPT ![pipeline_id].status = "queued",
                  ![pipeline_id].progress = status.progress,
                  ![pipeline_id].agents = status.agents]

\* on_event, lines 144-148: copy the orchestrator's summary into the store
StoreAfterEvent(store, pipeline_id, status) ==
    IF pipeline_id \in DOMAIN store
    THEN [store EXCEPT ![pipeline_id].status = status.status,
                       ![pipeline_id].progress = status.progress,
                       ![pipeline_id].agents = status.agents]
    ELSE store

EventPipelineId_none(pipeline_id) == "None"

\* on_event, line 141: the pipeline id the event is published with
EventPipelineId(pipeline_id) == pipeline_id

\* on_event(event), lines 136-148, called synchronously by the orchestrator
\* with its state already updated to (st, ag)
on_event(agent, type, data, st, ag) ==
    /\ BusPublish(agent, type, data, EventPipelineId(PipelineId))
    /\ pipeline_store' =
          StoreAfterEvent(pipeline_store, PipelineId, get_pipeline_status(st, ag))

\* the orchestrator calls every registered listener; none registered: no call
Emit(agent, type, data, st, ag) ==
    IF listeners > 0
    THEN on_event(agent, type, data, st, ag)
    ELSE UNCHANGED <<busVars, pipeline_store>>

NoData    == [elapsed |-> "absent", error |-> "absent"]
DoneData  == [elapsed |-> "secs",   error |-> "absent"]
ErrorData == [elapsed |-> "secs",   error |-> "message"]

\* POST /analyze, lines 87-101: no video can be resolved, HTTP 404
start_agent_analysis_404 ==
    /\ http_response = "none"
    /\ http_response' = "404"
    /\ UNCHANGED <<pipeline_store, pc, exc, orchVars, busVars>>
    /\ UNCHANGED notPipeline

\* POST /analyze, lines 103-124: the run is stored and the task scheduled
start_agent_analysis ==
    /\ http_response = "none"
    /\ pipeline_store' = pipeline_store @@ (PipelineId :> NewRun(PipelineId))
    /\ http_response' = "queued"
    /\ pc' = "construct"
    /\ UNCHANGED <<exc, orchVars, busVars>>
    /\ UNCHANGED notPipeline

\* run_agent_pipeline, lines 129-133: imports, get_message_bus(), AgentOrchestrator()
\* raise outside the try block (import error, or the registry is rejected)
construct_raises ==
    /\ pc = "construct"
    /\ pc' = "done"
    /\ exc' = IF ValidRegistry(registry) THEN "ImportError" ELSE "RegistryError"
    /\ UNCHANGED <<pipeline_store, http_response, orchVars, busVars>>
    /\ UNCHANGED notPipeline

\* run_agent_pipeline, lines 129-133: the orchestrator is constructed
construct ==
    /\ pc = "construct"
    /\ ValidRegistry(registry)
    /\ orch_status' = "queued"
    /\ agents' = [a \in DOMAIN registry |-> "idle"]
    /\ outputs' = [a \in DOMAIN registry |-> "none"]
    /\ inputs' = [a \in DOMAIN registry |-> <<>>]
    /\ pc' = "register"
    /\ UNCHANGED <<pipeline_store, http_response, exc, registry, phase_idx, policy,
                   listeners, busVars>>
    /\ UNCHANGED notPipeline

\* run_agent_pipeline, line 150: orch.on_event(on_event)
register_on_event ==
    /\ pc = "register"
    /\ listeners' = listeners + 1
    /\ pc' = "try"
    /\ UNCHANGED <<pipeline_store, http_response, exc, registry, orch_status, agents,
                   outputs, inputs, phase_idx, policy, busVars>>
    /\ UNCHANGED notPipeline

\* run_agent_pipeline, line 153
set_running ==
    /\ pc = "try"
    /\ pipeline_store' = SetStatus(pipeline_store, PipelineId, "running")
    /\ pc' = "run_pipeline"
    /\ UNCHANGED <<http_response, exc, orchVars, busVars>>
    /\ UNCHANGED notPipeline

----------------------------------------------------------------------------
(* run_pipeline(video_path), called at agents.py line 154 *)

InitialPolicy ==
    [ph \in Phases |->
        CASE ph = "extract" -> "fatal"
          [] ph = "analyze" -> "fallback"
          [] OTHER          -> "unset"]

\* the run starts: queued -> running, first phase
begin_run_pipeline ==
    /\ pc = "run_pipeline"
    /\ orch_status = "queued"
    /\ orch_status' = "running"
    /\ phase_idx' = 1
    /\ UNCHANGED <<pipeVars, registry, agents, outputs, inputs, policy, listeners, busVars>>
    /\ UNCHANGED notPipeline

\* an agent is invoked with the outputs of its dependencies; start event
start_agent(a) ==
    /\ pc = "run_pipeline"
    /\ orch_status = "running"
    /\ MayStart(registry, agents, CurrentPhase, a)
    /\ agents' = [agents EXCEPT ![a] = "running"]
    /\ inputs' = [inputs EXCEPT ![a] = InputsFor(registry, outputs, a)]
    /\ Emit(a, "agent_start", NoData, orch_status, agents')
    /\ UNCHANGED <<http_response, pc, exc, registry, orch_status, outputs, phase_idx,
                   policy, listeners>>
    /\ UNCHANGED notPipeline

\* the agent returned: its record is done, its result kept, done event
agent_done(a) ==
    /\ pc = "run_pipeline"
    /\ orch_status = "running"
    /\ a \in DOMAIN agents
    /\ agents[a] = "running"
    /\ agents' = [agents EXCEPT ![a] = "done"]
    /\ outputs' = [outputs EXCEPT ![a] = "real"]
    /\ Emit(a, "agent_done", DoneData, orch_status, agents')
    /\ UNCHANGED <<http_response, pc, exc, registry, orch_status, inputs, phase_idx,
                   policy, listeners>>
    /\ UNCHANGED notPipeline

\* the agent raised in a phase with fallback: error recorded, error event,
\* the empty placeholder stands for its output
agent_error_fallback(a) ==
    /\ pc = "run_pipeline"
    /\ orch_status = "running"
    /\ a \in DOMAIN agents
    /\ agents[a] = "running"
    /\ MayRaise(agents)
    /\ policy[registry[a].phase] \in {"fallback", "unset"}
    /\ policy' = [policy EXCEPT ![registry[a].phase] = "fallback"]
    /\ agents' = [agents EXCEPT ![a] = "error"]
    /\ outputs' = [outputs EXCEPT ![a] = "placeholder"]
    /\ Emit(a, "agent_error", ErrorData, orch_status, agents')
    /\ UNCHANGED <<http_response, pc, exc, registry, orch_status, inputs, phase_idx,
                   listeners>>
    /\ UNCHANGED notPipeline

\* the agent raised in a sequential phase without fallback: error recorded,
\* error event, the run becomes failed and run_pipeline raises
agent_error_fatal(a) ==
    /\ pc = "run_pipeline"
    /\ orch_status = "running"
    /\ a \in DOMAIN agents
    /\ agents[a] = "running"
    /\ MayRaise(agents)
    /\ policy[registry[a].phase] \in {"fatal", "unset"}
    /\ policy' = [policy EXCEPT ![registry[a].phase] = "fatal"]
    /\ agents' = [agents EXCEPT ![a] = "error"]
    /\ Emit(a, "agent_error", ErrorData, orch_status, agents')
    /\ orch_status' = "failed"
    /\ exc' = "AgentError"
    /\ pc' = "except_status"
    /\ UNCHANGED <<http_response, registry, outputs, inputs, phase_idx, listeners>>
    /\ UNCHANGED notPipeline

\* barrier join of the current phase, then the next phase
close_phase ==
    /\ pc = "run_pipeline"
    /\ orch_status = "running"
    /\ phase_idx < NumPhases
    /\ PhaseClosed(registry, agents, CurrentPhase)
    /\ phase_idx' = phase_idx + 1
    /\ UNCHANGED <<pipeVars, registry, orch_status, agents, outputs, inputs, policy,
                   listeners, busVars>>
    /\ UNCHANGED notPipeline

\* all phases executed: the run is completed and run_pipeline returns
finish_pipeline ==
    /\ pc = "run_pipeline"
    /\ orch_status = "running"
    /\ phase_idx = NumPhases
    /\ PhaseClosed(registry, agents, CurrentPhase)
    /\ orch_status' = "completed"
    /\ pc' = "return_status"
    /\ UNCHANGED <<pipeline_store, http_response, exc, registry, agents, outputs, inputs,
                   phase_idx, policy, listeners, busVars>>
    /\ UNCHANGED notPipeline

\* the value run_pipeline returns
PipelineResult == [agents |-> agents, report |-> outputs]

----------------------------------------------------------------------------
(* run_agent_pipeline after run_pipeline, one store write per step *)

\* line 155
write_completed ==
    /\ pc = "return_status"
    /\ pipeline_store' = SetStatus(pipeline_store, PipelineId, "completed")
    /\ pc' = "return_progress"
    /\ UNCHANGED <<http_response, exc, orchVars, busVars>>
    /\ UNCHANGED notPipeline

\* line 156
write_progress ==
    /\ pc = "return_progress"
    /\ pipeline_store' = [pipeline_store EXCEPT ![PipelineId].progress = 100]
    /\ pc' = "return_result"
    /\ UNCHANGED <<http_response, exc, orchVars, busVars>>
    /\ UNCHANGED notPipeline

\* line 157
write_result ==
    /\ pc = "return_result"
    /\ pipeline_store' = [pipeline_store EXCEPT ![PipelineId].result = PipelineResult]
    /\ pc' = "return_completed_at"
    /\ UNCHANGED <<http_response, exc, orchVars, busVars>>
    /\ UNCHANGED notPipeline

\* line 158
write_completed_at ==
    /\ pc = "return_completed_at"
    /\ pipeline_store' = [pipeline_store EXCEPT ![PipelineId].completed_at = "now"]
    /\ pc' = "done"
    /\ UNCHANGED <<http_response, exc, orchVars, busVars>>
    /\ UNCHANGED notPipeline

\* line 160
write_failed ==
    /\ pc = "except_status"
    /\ pipeline_store' = SetStatus(pipeline_store, PipelineId, "failed")
    /\ pc' = "except_error"
    /\ UNCHANGED <<http_response, exc, orchVars, busVars>>
    /\ UNCHANGED notPipeline

\* line 161
write_error ==
    /\ pc = "except_error"
    /\ pipeline_store' = [pipeline_store EXCEPT ![PipelineId].error = exc]
    /\ pc' = "done"
    /\ UNCHANGED <<http_response, exc, orchVars, busVars>>
    /\ UNCHANGED notPipeline

----------------------------------------------------------------------------
AllAgents == Range(AgentOrder)

BusInit ==
    /\ event_history = <<>>
    /\ pipeline_events = <<>>
    /\ subscribers = <<>>
    /\ clock = 0
    /\ delivered = <<>>

\* the value of a call that returns None
NoReturn ==
    [op |-> "none", limit |-> 0, agent_name |-> "None", event_type |-> "None",
     pipeline_id |-> "None", value |-> <<>>]

CallerInit ==
    /\ published = <<>>
    /\ published_to = <<>>
    /\ returned = NoReturn
    /\ bus_calls = 0

\* ConnectionManager.__init__: nobody is connected
\* no send_progress call is in progress; members is the set as it was when the
\* loop started, stayed its members never disconnected since, detached says
\* that disconnect has deleted the id's entry while the loop was walking it
SpIdle ==
    [pc |-> "idle", analysis_id |-> "None", message |-> <<>>, si_used |-> 0,
     members |-> {}, stayed |-> {}, current |-> "None", visited |-> {},
     disconnected |-> {}, detached |-> FALSE]

ConnIdle ==
    /\ active_connections = <<>>
    /\ sent = <<>>
    /\ send_exc = "none"
    /\ sp = SpIdle

----------------------------------------------------------------------------
(* core/analyzers/timelapse_analyzer.py (run_turbo_analysis and its         *)
(* workers) and core/analyzers/parallel_analyzer.py (ParallelFrameAnalyzer) *)

optimal_chunk_size_noUpperClamp(total_images, num_cores) ==
    Max(50, total_images \div num_cores)

\* run_turbo_analysis, line 422: max(50, min(100, total_images // num_cores))
initial_chunk_size(total_images, num_cores) ==
    Max(50, Min(100, total_images \div num_cores))

\* line 425: int(num_cores * 1.5)
target_chunks(num_cores) == (num_cores * 3) \div 2

\* lines 422-427: the chunk size the images are cut with
optimal_chunk_size(total_images, num_cores) ==
    LET size == initial_chunk_size(total_images, num_cores)
    IN  IF total_images > target_chunks(num_cores) * size
        THEN total_images \div target_chunks(num_cores) + 1
        ELSE size

\* line 429: len(range(0, total_images, size))
number_of_chunks(total_images, size) == (total_images + size - 1) \div size

\* line 429: [images[i:i + size] for i in range(0, total_images, size)]
image_chunks(images, size) ==
    [k \in 1..number_of_chunks(Len(images), size) |->
        SubSeq(images, (k - 1) * size + 1, Min(k * size, Len(images)))]

SortByKey_unsorted(s, keys) == s

\* the entries of s whose key is k, in their order in s
WithKey(s, keys, k) ==
    LET I == {i \in 1..Len(s) : keys[i] = k}
    IN  [j \in 1..Cardinality(I) |->
            s[CHOOSE i \in I : Cardinality({m \in I : m < i}) = j - 1]]

RECURSIVE SortFrom(_, _, _, _)
\* the entries of s with keys k..hi, by key, equal keys in their order in s
SortFrom(s, keys, k, hi) ==
    IF k > hi THEN <<>> ELSE WithKey(s, keys, k) \o SortFrom(s, keys, k + 1, hi)

\* list.sort(key=...): a stable sort of s, keys[i] being the key of s[i]
SortByKey(s, keys) ==
    IF s = <<>> THEN <<>>
    ELSE LET K == {keys[i] : i \in 1..Len(s)}
             lo == CHOOSE k \in K : \A m \in K : k <= m
             hi == CHOOSE k \in K : \A m \in K : k >= m
         IN  SortFrom(s, keys, lo, hi)

\* sorted(glob.glob(output_dir/*.jpg)), line 148, when the directory holds
\* frame_0001.jpg .. frame_<disk>.jpg: the names sort like their numbers (up
\* to frame 9999); a path is modelled by the number in its name
sorted_glob(disk) == [i \in 1..disk |-> i]

\* line 191: int(os.path.basename(img_path).split('_')[1].split('.')[0])
frame_idx(img_path) == img_path

\* analyze_vision_batch, lines 188-251, on one image: the record appended to
\* results, or nothing when the image cannot be read (line 194) or when the
\* analysis throws (lines 249-251)
vision_record(v, img_path) ==
    IF img_path \in v.unreadable \/ img_path \in v.throwing
    THEN <<>>
    ELSE <<[sec |-> frame_idx(img_path), timestamp |-> frame_idx(img_path)]>>

RECURSIVE analyze_vision_batch(_, _)
\* analyze_vision_batch, lines 188-251: the for loop over the chunk
analyze_vision_batch(v, image_paths) ==
    IF image_paths = <<>> THEN <<>>
    ELSE vision_record(v, Head(image_paths)) \o analyze_vision_batch(v, Tail(image_paths))

\* librosa.load(sr=16000)
sr == 16000

\* analyze_audio_track, line 311: int(segment_duration * sr) for the 10.0 s
\* run_turbo_analysis asks for
segment_samples == 10 * sr

\* analyze_audio_track, lines 315-323: the windows handed to the workers, as
\* their first sample; a window shorter than one second is skipped
audio_windows(len_y) ==
    LET starts == [k \in 1..((len_y + segment_samples - 1) \div segment_samples) |->
                      (k - 1) * segment_samples]
    IN  SelectSeq(starts, LAMBDA seg_idx :
            Min(seg_idx + segment_samples, len_y) - seg_idx >= sr)

\* _analyze_audio_segment, lines 371-379: the record returned when the
\* analysis of the window throws
audio_placeholder(timestamp) ==
    [timestamp |-> timestamp, energy |-> 0, pitch |-> 0, pitch_std |-> 0,
     is_silent |-> TRUE, is_monotone |-> TRUE]

\* _analyze_audio_segment, lines 339-379: the measured record (of a window
\* with speech: energy and pitch above 0), or the placeholder when the
\* analysis of the window throws; timestamp is seg_idx / sr
audio_segment_record(v, seg_idx) ==
    IF (seg_idx \div segment_samples) \in v.audio_throwing
    THEN audio_placeholder(seg_idx \div sr)
    ELSE [timestamp |-> seg_idx \div sr, energy |-> 1, pitch |-> 120, pitch_std |-> 30,
          is_silent |-> FALSE, is_monotone |-> FALSE]

analyze_audio_track_dropThrowing(v, e, audio_file) ==
    IF ~e.librosa \/ ~audio_file THEN <<>>
    ELSE LET w == SelectSeq(audio_windows(v.audio_samples), LAMBDA seg_idx :
                      (seg_idx \div segment_samples) \notin v.audio_throwing)
         IN  [i \in 1..Len(w) |-> audio_segment_record(v, w[i])]

\* analyze_audio_track, lines 278-336: the timeline of the track; empty when
\* librosa is missing (line 278) or loading the file raises (lines 334-336)
analyze_audio_track(v, e, audio_file) ==
    IF ~e.librosa \/ ~audio_file THEN <<>>
    ELSE LET w == audio_windows(v.audio_samples)
         IN  [i \in 1..Len(w) |-> audio_segment_record(v, w[i])]

NeedsFallback_never(exit_code, gpu_available) == FALSE

\* flash_extract_resources, line 135: exit_code != 0 and gpu_available
NeedsFallback(exit_code, gpu_available) == exit_code # 0 /\ gpu_available

\* parallel_analyzer.py: the empty dict a failed analysis leaves in the result
EmptyDict == [error |-> "raised"]

\* analyze_single_frame, lines 26-54: the result of the task for a frame
analyze_single_frame(frame) ==
    [timestamp |-> frame.timestamp,
     vision  |-> IF frame.outcome = "vision_raises" THEN EmptyDict
                 ELSE [timestamp |-> frame.timestamp],
     content |-> IF frame.outcome \in {"vision_raises", "content_raises"} THEN EmptyDict
                 ELSE [timestamp |-> frame.timestamp]]

\* ParallelFrameAnalyzer.__init__, line 149, with max_workers=None
max_workers(e) == Max(1, e.num_cores - 1)

\* x.get("timestamp", 0), lines 208-209
timestamp_or_0(x) == IF "timestamp" \in DOMAIN x THEN x.timestamp ELSE 0

NoVideo ==
    [frames |-> 0, throwing |-> {}, unreadable |-> {}, audio_samples |-> 0,
     audio_throwing |-> {}]

NoEnv == [num_cores |-> 1, mediapipe |-> FALSE, librosa |-> FALSE, use_gpu |-> FALSE]

ExtractIdle ==
    [pc |-> "idle", calls |-> 0, gpu_available |-> FALSE, probes |-> 0, video_exit |-> 0,
     fallback_ran |-> FALSE, fallback_exit |-> 0, audio_exit |-> 0, disk |-> 0,
     audio_file |-> FALSE, images |-> <<>>]

TurboIdle ==
    [pc |-> "idle", chunk_size |-> 0, chunks |-> <<>>, audio_taken |-> FALSE,
     next_chunk |-> 1, results |-> <<>>, audio_done |-> FALSE, timeline |-> <<>>,
     audio_timeline |-> <<>>, exc |-> "none", inits |-> 0, releases |-> 0]

IdleWorker == [pc |-> "idle", chunk |-> 0, model |-> FALSE, results |-> <<>>]

PfIdle ==
    [pc |-> "idle", frames |-> <<>>, pending |-> {}, order |-> <<>>,
     vision_results |-> <<>>, content_results |-> <<>>, inits |-> 0]

SizingIdle ==
    [pc |-> "idle", total_images |-> 0, num_cores |-> 0, initial_size |-> 0,
     chunk_size |-> 0, chunks |-> 0]

\* no analyzer is in use
AnalyzersIdle ==
    /\ analyzer = "none"
    /\ video = NoVideo
    /\ env = NoEnv
    /\ extract = ExtractIdle
    /\ turbo = TurboIdle
    /\ workers = <<>>
    /\ pf = PfIdle
    /\ sizing = SizingIdle

----------------------------------------------------------------------------
(* AnalysisProgressTracker of backend/app/core/realtime_feedback.py *)

\* __init__, lines 67-76: the stages in order (the display names are Korean
\* texts, written here by their meaning)
stages ==
    <<[id |-> "upload",        name |-> "video upload",      weight |-> 5],
      [id |-> "audio_extract", name |-> "audio extraction",  weight |-> 10],
      [id |-> "stt",           name |-> "speech recognition", weight |-> 20],
      [id |-> "vision",        name |-> "vision analysis",   weight |-> 25],
      [id |-> "vibe",          name |-> "audio analysis",    weight |-> 15],
      [id |-> "text",          name |-> "text analysis",     weight |-> 10],
      [id |-> "evaluation",    name |-> "evaluation",        weight |-> 10],
      [id |-> "report",        name |-> "report generation", weight |-> 5]>>

\* stages[i] for the 0-based index i of the code
stage_at(i) == stages[i + 1]

\* round(total, 1), line 90: total is given in hundredths, the result in
\* tenths; ties do not occur for the percents used here (multiples of 10)
round1(hundredths) == (hundredths + 5) \div 10

RECURSIVE progress_total(_, _, _)
\* get_overall_progress, lines 84-89: the loop from stage i on, in hundredths
progress_total(i, idx, progress) ==
    IF i >= Len(stages) THEN 0
    ELSE (IF i < idx THEN 100 * stage_at(i).weight
          ELSE IF i = idx THEN stage_at(i).weight * progress
          ELSE 0)
         + progress_total(i + 1, idx, progress)

\* get_overall_progress, lines 82-90, in tenths of a percent
get_overall_progress(t) ==
    round1(progress_total(0, t.current_stage_idx, t.current_stage_progress))

clamp_percent_unclamped(progress) == progress

\* line 98: min(100, max(0, progress))
clamp_percent(progress) == Min(100, Max(0, progress))

\* lines 95-99: the stage with this id becomes the current one, when there is one
FindStage(t, stage_id, progress) ==
    IF \E i \in 0..(Len(stages) - 1) : stage_at(i).id = stage_id
    THEN [t EXCEPT !.current_stage_idx =
                       CHOOSE i \in 0..(Len(stages) - 1) : stage_at(i).id = stage_id,
                   !.current_stage_progress = clamp_percent(progress)]
    ELSE t

\* lines 102-107: the note appended when a message is given ("None": no message)
StageNote(t, stage_id, message) ==
    IF message # "None"
    THEN [t EXCEPT !.timeline_events =
                       Append(@, [timestamp |-> t.calls, stage |-> stage_id,
                                  message |-> message])]
    ELSE t

\* _send_update, lines 149-171: the payload of type progress
progress_payload(t) ==
    LET idx == t.current_stage_idx
    IN  [type |-> "progress",
         analysis_id |-> t.analysis_id,
         overall_progress |-> get_overall_progress(t),
         current_stage |->
             [id |-> IF idx < Len(stages) THEN stage_at(idx).id ELSE "complete",
              name |-> IF idx < Len(stages) THEN stage_at(idx).name ELSE "done",
              progress |-> t.current_stage_progress],
         stages |-> [i \in 1..Len(stages) |->
                        IF i - 1 < idx THEN "completed"
                        ELSE IF i - 1 = idx THEN "in_progress" ELSE "pending"],
         timeline |-> LastN(t.timeline_events, 5)]

\* complete, lines 128-135: the payload of type complete
complete_payload(t) ==
    [type |-> "complete", analysis_id |-> t.analysis_id, progress |-> 1000,
     timeline |-> LastN(t.timeline_events, 10)]

\* error, lines 139-145: the payload of type error
error_payload(t, error_message) ==
    [type |-> "error", analysis_id |-> t.analysis_id, message |-> error_message,
     progress |-> get_overall_progress(t),
     stage |-> stage_at(t.current_stage_idx).name]

NoArgs == [stage_id |-> "None", progress |-> 0, message |-> "None"]

\* __init__, lines 65-80, for analysis a1; calls, last_call, last_args,
\* terminated and exc record the calls made on the tracker
NewTracker ==
    [analysis_id |-> "a1", current_stage_idx |-> 0, current_stage_progress |-> 0,
     timeline_events |-> <<>>, calls |-> 0, last_call |-> "none", last_args |-> NoArgs,
     terminated |-> "no", exc |-> "none"]

TrackerIdle ==
    /\ tracker = NewTracker
    /\ payloads = <<>>


Threads == {"t1", "t2"}

NoCall == [op |-> "none", event_type |-> "none", arg |-> "none"]

\* no thread is inside a call on the bus
ThreadsIdle ==
    /\ lists = <<>>
    /\ history_ref = 0
    /\ subs_map = <<>>
    /\ th = <<>>
    /\ lin_init = <<>>

\* the bus exists and is initialised, nobody is inside get_message_bus
SingletonReady ==
    /\ instance = "bus"
    /\ initialized = TRUE
    /\ gth = [t \in Threads |-> [pc |-> "idle", result |-> "none"]]

\* no request yet, no orchestrator
PipelineIdle ==
    /\ pipeline_store = <<>>
    /\ http_response = "none"
    /\ pc = "none"
    /\ exc = "none"
    /\ orch_status = "none"
    /\ agents = <<>>
    /\ outputs = <<>>
    /\ inputs = <<>>
    /\ phase_idx = 0
    /\ policy = InitialPolicy
    /\ listeners = 0

Init ==
    /\ PipelineIdle
    /\ registry \in Registries
    /\ BusInit
    /\ CallerInit
    /\ ThreadsIdle
    /\ SingletonReady
    /\ ConnIdle
    /\ AnalyzersIdle
    /\ TrackerIdle

Next ==
    \/ start_agent_analysis_404
    \/ start_agent_analysis
    \/ construct_raises
    \/ construct
    \/ register_on_event
    \/ set_running
    \/ begin_run_pipeline
    \/ \E a \in AllAgents : start_agent(a)
    \/ \E a \in AllAgents : agent_done(a)
    \/ \E a \in AllAgents : agent_error_fallback(a)
    \/ \E a \in AllAgents : agent_error_fatal(a)
    \/ close_phase
    \/ finish_pipeline
    \/ write_completed
    \/ write_progress
    \/ write_result
    \/ write_completed_at
    \/ write_failed
    \/ write_error

Spec == Init /\ [][Next]_vars

----------------------------------------------------------------------------
(* The message bus used directly: specification SpecBus *)

\* calls made on the bus in one behaviour
MaxBusCalls == 3

BusAgents == {"vision", "content"}
BusEventTypes == {"agent_start", "agent_error"}
BusPipelineIds == {"None", "p1", "p2"}
SubscriptionTypes == {"agent_start", "*"}

\* the history after n earlier publish calls without pipeline id
PreloadedHistory(n) ==
    [i \in 1..n |-> AgentEvent("agent_start", "extractor", i - 1, NoData)]

publish(agent_name, event_type, data, pipeline_id) ==
    /\ bus_calls < MaxBusCalls
    /\ BusPublish(agent_name, event_type, data, pipeline_id)
    /\ published' = Append(published, AgentEvent(event_type, agent_name, clock, data))
    /\ published_to' = Append(published_to, pipeline_id)
    /\ returned' = NoReturn
    /\ bus_calls' = bus_calls + 1
    /\ UNCHANGED notBus

subscribe(event_type, callback) ==
    /\ bus_calls < MaxBusCalls
    /\ subscribers' = SubscribersAfterSubscribe(subscribers, event_type, callback)
    /\ bus_calls' = bus_calls + 1
    /\ returned' = NoReturn
    /\ UNCHANGED <<event_history, pipeline_events, clock, delivered, published,
                   published_to, notBus>>

unsubscribe(event_type, callback) ==
    /\ bus_calls < MaxBusCalls
    /\ subscribers' = SubscribersAfterUnsubscribe(subscribers, event_type, callback)
    /\ bus_calls' = bus_calls + 1
    /\ returned' = NoReturn
    /\ UNCHANGED <<event_history, pipeline_events, clock, delivered, published,
                   published_to, notBus>>

\* clear_history, lines 116-119
clear_history ==
    /\ bus_calls < MaxBusCalls
    /\ event_history' = <<>>
    /\ pipeline_events' = <<>>
    /\ published' = <<>>
    /\ published_to' = <<>>
    /\ returned' = NoReturn
    /\ bus_calls' = bus_calls + 1
    /\ UNCHANGED <<subscribers, clock, delivered, notBus>>

InitBus ==
    /\ PipelineIdle
    /\ registry = DefaultRegistry
    /\ \E n \in {0, max_history - 1} :
          /\ event_history = PreloadedHistory(n)
          /\ published = PreloadedHistory(n)
          /\ published_to = [i \in 1..n |-> "None"]
          /\ clock = n
    /\ pipeline_events = <<>>
    /\ subscribers = <<>>
    /\ delivered = <<>>
    /\ bus_calls = 0
    /\ returned = NoReturn
    /\ ThreadsIdle
    /\ SingletonReady
    /\ ConnIdle
    /\ AnalyzersIdle
    /\ TrackerIdle

NextBus ==
    \/ \E a \in BusAgents, t \in BusEventTypes, p \in BusPipelineIds : publish(a, t, NoData, p)
    \/ \E t \in SubscriptionTypes, cb \in Callbacks : subscribe(t, cb)
    \/ \E t \in SubscriptionTypes, cb \in Callbacks : unsubscribe(t, cb)
    \/ clear_history

SpecBus == InitBus /\ [][NextBus]_vars

----------------------------------------------------------------------------
(* publish / subscribe / unsubscribe called from several threads:           *)
(* specification SpecBusThreads.  The methods take no lock, so a thread     *)
(* switch may fall between any two loads, calls and stores of a method.     *)

NoEvent == AgentEvent("none", "none", 0, NoData)

ThreadCalls ==
    {[op |-> "publish", event_type |-> "agent_start", arg |-> a] : a \in BusAgents}
    \cup {[op |-> o, event_type |-> t, arg |-> cb] :
            o \in {"subscribe", "unsubscribe"}, t \in SubscriptionTypes, cb \in Callbacks}

\* the subscriber map as a value: event type -> contents of its list
SubscribersValue == [et \in DOMAIN subs_map |-> lists[subs_map[et]]]

notThreads ==
    <<pipeVars, orchVars, callerVars, singletonVars, connVars, analyzerVars,
      trackerVars, event_history, pipeline_events, subscribers>>

Goto(t, label) == th' = [th EXCEPT ![t].pc = label]

\* a thread enters publish (lines 59-64 build the event), subscribe or unsubscribe
t_begin(t, c) ==
    /\ th[t].pc = "idle"
    /\ th' = [th EXCEPT ![t] =
                [pc    |-> CASE c.op = "publish"   -> "p_load"
                             [] c.op = "subscribe" -> "s_check"
                             [] OTHER              -> "u_check",
                 call  |-> c,
                 ref   |-> 0,
                 event |-> IF c.op = "publish"
                           THEN AgentEvent(c.event_type, c.arg, clock, NoData)
                           ELSE NoEvent]]
    /\ clock' = IF c.op = "publish" THEN clock + 1 ELSE clock
    /\ UNCHANGED <<lists, history_ref, subs_map, lin_init, delivered, notThreads>>

\* publish, line 66: self._event_history is loaded
p_load(t) ==
    /\ th[t].pc = "p_load"
    /\ th' = [th EXCEPT ![t].pc = "p_append", ![t].ref = history_ref]
    /\ UNCHANGED <<lists, history_ref, subs_map, lin_init, clock, delivered, notThreads>>

\* publish, line 66: append on the list object that was loaded
p_append(t) ==
    /\ th[t].pc = "p_append"
    /\ lists' = [lists EXCEPT ![th[t].ref] = Append(@, th[t].event)]
    /\ Goto(t, "p_len")
    /\ UNCHANGED <<history_ref, subs_map, lin_init, clock, delivered, notThreads>>

\* publish, line 67: len(self._event_history) > self._max_history
p_len(t) ==
    /\ th[t].pc = "p_len"
    /\ Goto(t, IF Len(lists[history_ref]) > max_history THEN "p_slice" ELSE "p_deliver")
    /\ UNCHANGED <<lists, history_ref, subs_map, lin_init, clock, delivered, notThreads>>

\* publish, line 68, right-hand side: the slice is a new list object
p_slice(t) ==
    /\ th[t].pc = "p_slice"
    /\ lists' = Append(lists, LastN(lists[history_ref], max_history))
    /\ th' = [th EXCEPT ![t].pc = "p_store", ![t].ref = Len(lists) + 1]
    /\ UNCHANGED <<history_ref, subs_map, lin_init, clock, delivered, notThreads>>

\* publish, line 68: self._event_history is rebound to the slice
p_store(t) ==
    /\ th[t].pc = "p_store"
    /\ history_ref' = th[t].ref
    /\ Goto(t, "p_deliver")
    /\ UNCHANGED <<lists, subs_map, lin_init, clock, delivered, notThreads>>

\* publish, lines 70-87 (no pipeline id): the callbacks are called
p_deliver(t) ==
    /\ th[t].pc = "p_deliver"
    /\ delivered' = delivered \o
          Deliveries(SubscribersValue, th[t].event,
                     EventRecorded(lists[history_ref], <<>>, "None", th[t].event))
    /\ Goto(t, "done")
    /\ UNCHANGED <<lists, history_ref, subs_map, lin_init, clock, notThreads>>

\* subscribe, line 91: event_type not in self._subscribers
s_check(t) ==
    /\ th[t].pc = "s_check"
    /\ Goto(t, IF th[t].call.event_type \notin DOMAIN subs_map THEN "s_new" ELSE "s_load")
    /\ UNCHANGED <<lists, history_ref, subs_map, lin_init, clock, delivered, notThreads>>

\* subscribe, line 92: self._subscribers[event_type] = []
s_new(t) ==
    /\ th[t].pc = "s_new"
    /\ lists' = Append(lists, <<>>)
    /\ subs_map' = [et \in DOMAIN subs_map \cup {th[t].call.event_type} |->
                       IF et = th[t].call.event_type THEN Len(lists) + 1 ELSE subs_map[et]]
    /\ Goto(t, "s_load")
    /\ UNCHANGED <<history_ref, lin_init, clock, delivered, notThreads>>

\* subscribe, line 93: self._subscribers[event_type] is loaded
s_load(t) ==
    /\ th[t].pc = "s_load"
    /\ th' = [th EXCEPT ![t].pc = "s_append", ![t].ref = subs_map[th[t].call.event_type]]
    /\ UNCHANGED <<lists, history_ref, subs_map, lin_init, clock, delivered, notThreads>>

\* subscribe, line 93: append on the list object that was loaded
s_append(t) ==
    /\ th[t].pc = "s_append"
    /\ lists' = [lists EXCEPT ![th[t].ref] = Append(@, th[t].call.arg)]
    /\ Goto(t, "done")
    /\ UNCHANGED <<history_ref, subs_map, lin_init, clock, delivered, notThreads>>

\* unsubscribe, line 97: event_type in self._subscribers
u_check(t) ==
    /\ th[t].pc = "u_check"
    /\ Goto(t, IF th[t].call.event_type \in DOMAIN subs_map THEN "u_filter" ELSE "done")
    /\ UNCHANGED <<lists, history_ref, subs_map, lin_init, clock, delivered, notThreads>>

\* unsubscribe, lines 98-100, right-hand side: the filtered copy is a new list
u_filter(t) ==
    /\ th[t].pc = "u_filter"
    /\ lists' = Append(lists, SelectSeq(lists[subs_map[th[t].call.event_type]],
                                        LAMBDA cb : cb # th[t].call.arg))
    /\ th' = [th EXCEPT ![t].pc = "u_store", ![t].ref = Len(lists) + 1]
    /\ UNCHANGED <<history_ref, subs_map, lin_init, clock, delivered, notThreads>>

\* unsubscribe, line 98: self._subscribers[event_type] is rebound to the copy
u_store(t) ==
    /\ th[t].pc = "u_store"
    /\ subs_map' = [subs_map EXCEPT ![th[t].call.event_type] = th[t].ref]
    /\ Goto(t, "done")
    /\ UNCHANGED <<lists, history_ref, lin_init, clock, delivered, notThreads>>

InitThreads ==
    /\ PipelineIdle
    /\ registry = DefaultRegistry
    /\ event_history = <<>>
    /\ pipeline_events = <<>>
    /\ subscribers = <<>>
    /\ delivered = <<>>
    /\ CallerInit
    /\ SingletonReady
    /\ ConnIdle
    /\ AnalyzersIdle
    /\ TrackerIdle
    /\ th = [t \in Threads |-> [pc |-> "idle", call |-> NoCall, ref |-> 0, event |-> NoEvent]]
    /\ history_ref = 1
    /\ \E n \in {0, max_history}, subscribed \in BOOLEAN :
          /\ clock = n
          /\ lists = IF subscribed THEN <<PreloadedHistory(n), <<"cb1">> >>
                     ELSE <<PreloadedHistory(n)>>
          /\ subs_map = IF subscribed THEN [et \in {"agent_start"} |-> 2] ELSE <<>>
          /\ lin_init = [history |-> PreloadedHistory(n),
                         subscribers |-> IF subscribed
                                         THEN [et \in {"agent_start"} |-> <<"cb1">>]
                                         ELSE <<>>]

NextThreads ==
    \/ \E t \in Threads, c \in ThreadCalls : t_begin(t, c)
    \/ \E t \in Threads : p_load(t)
    \/ \E t \in Threads : p_append(t)
    \/ \E t \in Threads : p_len(t)
    \/ \E t \in Threads : p_slice(t)
    \/ \E t \in Threads : p_store(t)
    \/ \E t \in Threads : p_deliver(t)
    \/ \E t \in Threads : s_check(t)
    \/ \E t \in Threads : s_new(t)
    \/ \E t \in Threads : s_load(t)
    \/ \E t \in Threads : s_append(t)
    \/ \E t \in Threads : u_check(t)
    \/ \E t \in Threads : u_filter(t)
    \/ \E t \in Threads : u_store(t)

SpecBusThreads == InitThreads /\ [][NextThreads]_vars

----------------------------------------------------------------------------
(* get_message_bus() called from several threads: specification            *)
(* SpecSingleton.  __new__ runs under the class lock, __init__ does not.     *)

notSingleton ==
    <<pipeVars, orchVars, threadVars, published, published_to, returned, connVars,
      analyzerVars, trackerVars>>

\* AgentMessageBus.__new__, lines 41-46, under cls._lock
g_new(t) ==
    /\ gth[t].pc \in {"idle", "ready"}
    /\ IF instance = "None"
       THEN instance' = "bus" /\ initialized' = FALSE
       ELSE UNCHANGED <<instance, initialized>>
    /\ gth' = [gth EXCEPT ![t].pc = "g_check"]
    /\ UNCHANGED <<busVars, bus_calls, notSingleton>>

\* __init__, lines 49-50: return at once when already initialised
g_check(t) ==
    /\ gth[t].pc = "g_check"
    /\ gth' = [gth EXCEPT ![t] = IF initialized
                                 THEN [pc |-> "ready", result |-> instance]
                                 ELSE [pc |-> "g_subscribers", result |-> @.result]]
    /\ UNCHANGED <<instance, initialized, busVars, bus_calls, notSingleton>>

\* __init__, line 51
g_subscribers(t) ==
    /\ gth[t].pc = "g_subscribers"
    /\ subscribers' = <<>>
    /\ gth' = [gth EXCEPT ![t].pc = "g_event_history"]
    /\ UNCHANGED <<instance, initialized, event_history, pipeline_events, clock, delivered,
                   bus_calls, notSingleton>>

\* __init__, line 52
g_event_history(t) ==
    /\ gth[t].pc = "g_event_history"
    /\ event_history' = <<>>
    /\ gth' = [gth EXCEPT ![t].pc = "g_pipeline_events"]
    /\ UNCHANGED <<instance, initialized, subscribers, pipeline_events, clock, delivered,
                   bus_calls, notSingleton>>

\* __init__, lines 53-54
g_pipeline_events(t) ==
    /\ gth[t].pc = "g_pipeline_events"
    /\ pipeline_events' = <<>>
    /\ gth' = [gth EXCEPT ![t].pc = "g_initialized"]
    /\ UNCHANGED <<instance, initialized, subscribers, event_history, clock, delivered,
                   bus_calls, notSingleton>>

\* __init__, line 55, and get_message_bus returns the instance
g_initialized(t) ==
    /\ gth[t].pc = "g_initialized"
    /\ initialized' = TRUE
    /\ gth' = [gth EXCEPT ![t] = [pc |-> "ready", result |-> instance]]
    /\ UNCHANGED <<instance, busVars, bus_calls, notSingleton>>

\* a thread that holds the bus subscribes a callback
use_subscribe(t, event_type, callback) ==
    /\ gth[t].pc = "ready"
    /\ bus_calls < MaxBusCalls
    /\ subscribers' = SubscribersAfterSubscribe(subscribers, event_type, callback)
    /\ bus_calls' = bus_calls + 1
    /\ UNCHANGED <<event_history, pipeline_events, clock, delivered, singletonVars,
                   notSingleton>>

\* a thread that holds the bus publishes an event
use_publish(t, agent_name, event_type, pipeline_id) ==
    /\ gth[t].pc = "ready"
    /\ bus_calls < MaxBusCalls
    /\ BusPublish(agent_name, event_type, NoData, pipeline_id)
    /\ bus_calls' = bus_calls + 1
    /\ UNCHANGED <<singletonVars, notSingleton>>

\* process start: the class has no instance yet
InitSingleton ==
    /\ PipelineIdle
    /\ registry = DefaultRegistry
    /\ BusInit
    /\ CallerInit
    /\ ThreadsIdle
    /\ ConnIdle
    /\ AnalyzersIdle
    /\ TrackerIdle
    /\ instance = "None"
    /\ initialized = FALSE
    /\ gth = [t \in Threads |-> [pc |-> "idle", result |-> "none"]]

NextSingleton ==
    \/ \E t \in Threads : g_new(t)
    \/ \E t \in Threads : g_check(t)
    \/ \E t \in Threads : g_subscribers(t)
    \/ \E t \in Threads : g_event_history(t)
    \/ \E t \in Threads : g_pipeline_events(t)
    \/ \E t \in Threads : g_initialized(t)
    \/ \E t \in Threads, et \in SubscriptionTypes : use_subscribe(t, et, "cb1")
    \/ \E t \in Threads, p \in {"None", "p1"} : use_publish(t, "vision", "agent_start", p)

SpecSingleton == InitSingleton /\ [][NextSingleton]_vars

----------------------------------------------------------------------------
(* ConnectionManager of backend/app/core/realtime_feedback.py, called one   *)
(* call at a time, next to the subscribers of the bus: specification        *)
(* SpecObservers.                                                           *)

WebSockets == {"ws1", "ws2"}
AnalysisIds == {"a1", "a2"}
ProgressPayloads == {"progress"}

notConn ==
    <<pipeVars, orchVars, busVars, threadVars, singletonVars, published, published_to,
      returned, analyzerVars, trackerVars>>

\* the orders in which a for loop may walk the set S
IterationOrders(S) ==
    {o \in [1..Cardinality(S) -> S] : \A i, j \in 1..Cardinality(S) : i # j => o[i] # o[j]}

\* json.dumps(data, ensure_ascii=False), line 36: the text of the payload
json_dumps(data) == <<"json", data>>

SendProgress_abortOnFailure(connections, order, failing, analysis_id, data) ==
    LET n == IF \E i \in 1..Len(order) : order[i] \in failing
             THEN CHOOSE i \in 1..Len(order) :
                     /\ order[i] \in failing
                     /\ \A j \in 1..(i - 1) : order[j] \notin failing
             ELSE Len(order)
    IN  [sent |-> [i \in 1..n |->
                     [connection |-> order[i], analysis_id |-> analysis_id,
                      message |-> json_dumps(data), failed |-> order[i] \in failing]],
         exc |-> IF \E i \in 1..Len(order) : order[i] \in failing THEN "Exception" ELSE "none",
         connections |-> connections]

\* send_progress, lines 35-45, for an id that has connections: send_text on
\* each connection in the order the set is walked; a connection whose send
\* raises is collected and discarded after the loop
SendProgress(connections, order, failing, analysis_id, data) ==
    [sent |-> [i \in 1..Len(order) |->
                 [connection |-> order[i], analysis_id |-> analysis_id,
                  message |-> json_dumps(data), failed |-> order[i] \in failing]],
     exc |-> "none",
     connections |-> connections \ failing]

\* connect, lines 19-24
connect(websocket, analysis_id) ==
    /\ bus_calls < MaxBusCalls
    /\ active_connections' =
          IF analysis_id \notin DOMAIN active_connections
          THEN active_connections @@ (analysis_id :> {websocket})
          ELSE [active_connections EXCEPT ![analysis_id] = @ \cup {websocket}]
    /\ bus_calls' = bus_calls + 1
    /\ UNCHANGED <<sent, send_exc, sp, notConn>>

\* disconnect, lines 26-31
disconnect(websocket, analysis_id) ==
    /\ bus_calls < MaxBusCalls
    /\ active_connections' =
          IF analysis_id \in DOMAIN active_connections
          THEN IF active_connections[analysis_id] \ {websocket} = {}
               THEN [k \in DOMAIN active_connections \ {analysis_id} |-> active_connections[k]]
               ELSE [active_connections EXCEPT ![analysis_id] = @ \ {websocket}]
          ELSE active_connections
    /\ sp' = IF sp.pc = "sending" /\ sp.analysis_id = analysis_id
             THEN [sp EXCEPT !.stayed = @ \ {websocket},
                             !.detached = @ \/ analysis_id \notin DOMAIN active_connections']
             ELSE sp
    /\ bus_calls' = bus_calls + 1
    /\ UNCHANGED <<sent, send_exc, notConn>>

\* send_progress, lines 33-45; failing are the connections whose send_text raises
send_progress(analysis_id, data, order, failing) ==
    /\ bus_calls < MaxBusCalls
    /\ analysis_id \in DOMAIN active_connections
    /\ order \in IterationOrders(active_connections[analysis_id])
    /\ failing \subseteq active_connections[analysis_id]
    /\ LET r == SendProgress(active_connections[analysis_id], order, failing, analysis_id, data)
       IN  /\ sent' = sent \o r.sent
           /\ send_exc' = r.exc
           /\ active_connections' = [active_connections EXCEPT ![analysis_id] = r.connections]
    /\ bus_calls' = bus_calls + 1
    /\ UNCHANGED <<sp, notConn>>

\* send_progress, line 35, for an id nobody is connected to
send_progress_unknown(analysis_id, data) ==
    /\ bus_calls < MaxBusCalls
    /\ analysis_id \notin DOMAIN active_connections
    /\ send_exc' = "none"
    /\ bus_calls' = bus_calls + 1
    /\ UNCHANGED <<active_connections, sent, sp, notConn>>

\* the bus with or without two subscribers (one of them broken), the manager
\* with or without two clients connected to analysis a1
InitObservers ==
    /\ PipelineIdle
    /\ registry = DefaultRegistry
    /\ event_history = <<>>
    /\ pipeline_events = <<>>
    /\ subscribers \in {<<>>, [t \in {"agent_start"} |-> <<"cb2", "cb1">>]}
    /\ clock = 0
    /\ delivered = <<>>
    /\ CallerInit
    /\ ThreadsIdle
    /\ SingletonReady
    /\ active_connections \in {<<>>, [a \in {"a1"} |-> WebSockets]}
    /\ sent = <<>>
    /\ send_exc = "none"
    /\ sp = SpIdle
    /\ AnalyzersIdle
    /\ TrackerIdle

NextObservers ==
    \/ \E t \in BusEventTypes, p \in {"None", "p1"} : publish("vision", t, NoData, p)
    \/ \E t \in SubscriptionTypes, cb \in Callbacks : subscribe(t, cb)
    \/ \E ws \in WebSockets, a \in AnalysisIds : connect(ws, a)
    \/ \E ws \in WebSockets, a \in AnalysisIds : disconnect(ws, a)
    \/ \E a \in AnalysisIds, d \in ProgressPayloads :
          \E o \in [1..Cardinality(WebSockets) -> WebSockets] \cup [1..1 -> WebSockets] \cup {<<>>},
             f \in SUBSET WebSockets : send_progress(a, d, o, f)
    \/ \E a \in AnalysisIds, d \in ProgressPayloads : send_progress_unknown(a, d)

SpecObservers == InitObservers /\ [][NextObservers]_vars

----------------------------------------------------------------------------
(* send_progress as a coroutine of the event loop, next to the websocket    *)
(* endpoints that connect and disconnect while it is suspended in           *)
(* `await connection.send_text(message)`: specification SpecSendInterleaved. *)
(* Every action runs one task from one await to the next.                  *)

\* the set object the for loop of line 38 walks, as it is now: the set
\* registered for the id, or the emptied set disconnect has taken out of the
\* dict (line 31)
IteratedSet ==
    IF sp.detached \/ sp.analysis_id \notin DOMAIN active_connections
    THEN {}
    ELSE active_connections[sp.analysis_id]

\* lines 43-45, after the loop: discard on the set registered for the id;
\* self.active_connections[analysis_id] raises KeyError when the id is gone
sp_cleanup(disconnected) ==
    IF disconnected = {}
    THEN /\ send_exc' = "none"
         /\ UNCHANGED active_connections
    ELSE IF sp.analysis_id \in DOMAIN active_connections
         THEN /\ send_exc' = "none"
              /\ active_connections' =
                    [active_connections EXCEPT ![sp.analysis_id] = @ \ disconnected]
         ELSE /\ send_exc' = "KeyError"
              /\ UNCHANGED active_connections

\* send_progress, lines 33-40, up to the first await: the iterator over the
\* set is created and send_text is called on the first connection it yields
sp_begin(analysis_id, data) ==
    /\ bus_calls < MaxBusCalls
    /\ sp.pc \in {"idle", "done"}
    /\ analysis_id \in DOMAIN active_connections
    /\ bus_calls' = bus_calls + 1
    /\ IF active_connections[analysis_id] = {}
       THEN /\ sp' = [SpIdle EXCEPT !.pc = "done", !.analysis_id = analysis_id]
            /\ send_exc' = "none"
       ELSE /\ \E c \in active_connections[analysis_id] :
                 sp' = [SpIdle EXCEPT !.pc = "sending",
                                      !.analysis_id = analysis_id,
                                      !.message = json_dumps(data),
                                      !.si_used = Cardinality(active_connections[analysis_id]),
                                      !.members = active_connections[analysis_id],
                                      !.stayed = active_connections[analysis_id],
                                      !.current = c,
                                      !.visited = {c}]
            /\ UNCHANGED send_exc
    /\ UNCHANGED <<active_connections, sent, notConn>>

\* lines 38-45, from the return of send_text to the next await or to the end:
\* the send has succeeded or raised (line 42), then the iterator is asked
\* for the next connection.  It raises RuntimeError("Set changed size during
\* iteration") when the size of the set is no longer the one it started
\* with; a connection added meanwhile may be yielded or not
sp_resume(raised) ==
    /\ sp.pc = "sending"
    /\ LET disconnected == sp.disconnected \cup (IF raised THEN {sp.current} ELSE {})
           unvisited == IteratedSet \ sp.visited
       IN  /\ sent' = Append(sent, [connection |-> sp.current,
                                    analysis_id |-> sp.analysis_id,
                                    message |-> sp.message, failed |-> raised])
           /\ IF Cardinality(IteratedSet) # sp.si_used
              THEN /\ sp' = [sp EXCEPT !.pc = "done", !.disconnected = disconnected,
                                       !.current = "None"]
                   /\ send_exc' = "RuntimeError"
                   /\ UNCHANGED active_connections
              ELSE \/ /\ unvisited \cap sp.members = {}
                      /\ sp' = [sp EXCEPT !.pc = "done", !.disconnected = disconnected,
                                          !.current = "None"]
                      /\ sp_cleanup(disconnected)
                   \/ /\ \E c \in unvisited :
                            sp' = [sp EXCEPT !.disconnected = disconnected,
                                             !.current = c,
                                             !.visited = @ \cup {c}]
                      /\ UNCHANGED <<active_connections, send_exc>>
    /\ UNCHANGED <<bus_calls, notConn>>

InitSendInterleaved ==
    /\ PipelineIdle
    /\ registry = DefaultRegistry
    /\ BusInit
    /\ CallerInit
    /\ ThreadsIdle
    /\ SingletonReady
    /\ active_connections \in {[a \in {"a1"} |-> {"ws1"}], [a \in {"a1"} |-> WebSockets]}
    /\ sent = <<>>
    /\ send_exc = "none"
    /\ sp = SpIdle
    /\ AnalyzersIdle
    /\ TrackerIdle

NextSendInterleaved ==
    \/ \E a \in AnalysisIds, d \in ProgressPayloads : sp_begin(a, d)
    \/ \E raised \in BOOLEAN : sp_resume(raised)
    \/ \E ws \in WebSockets, a \in AnalysisIds : connect(ws, a)
    \/ \E ws \in WebSockets, a \in AnalysisIds : disconnect(ws, a)

SpecSendInterleaved == InitSendInterleaved /\ [][NextSendInterleaved]_vars

----------------------------------------------------------------------------
(* The progress tracker of one analysis and the clients that watch it:      *)
(* specification SpecTracker.                                               *)

MaxTrackerCalls == 3

TrackerStageIds == {"upload", "vision", "unknown"}
TrackerPercents == {-10, 50, 150}
TrackerMessages == {"None", "note"}

notTracker ==
    <<pipeVars, orchVars, busVars, callerVars, threadVars, singletonVars, analyzerVars, sp>>

\* the notes n earlier add_timeline_event calls have left in timeline_events
PreloadedNotes(n) ==
    [i \in 1..n |-> [timestamp |-> i - n - 1, type |-> "info", message |-> "note",
                     data |-> "{}"]]

\* await manager.send_progress(self.analysis_id, data), the clients answering
manager_send(analysis_id, data) ==
    /\ payloads' = Append(payloads, data)
    /\ IF analysis_id \in DOMAIN active_connections
       THEN \E order \in IterationOrders(active_connections[analysis_id]) :
               LET r == SendProgress(active_connections[analysis_id], order, {},
                                     analysis_id, data)
               IN  /\ sent' = sent \o r.sent
                   /\ send_exc' = r.exc
                   /\ active_connections' =
                         [active_connections EXCEPT ![analysis_id] = r.connections]
       ELSE /\ send_exc' = "none"
            /\ UNCHANGED <<active_connections, sent>>

\* the record of a call on the tracker
Called(t, name, args) ==
    [t EXCEPT !.calls = @ + 1, !.last_call = name, !.last_args = args, !.exc = "none"]

\* update_stage, lines 92-110
update_stage(stage_id, progress, message) ==
    /\ tracker.calls < MaxTrackerCalls
    /\ LET t == StageNote(FindStage(tracker, stage_id, progress), stage_id, message)
       IN  /\ tracker' = Called(t, "update_stage",
                                [stage_id |-> stage_id, progress |-> progress,
                                 message |-> message])
           /\ manager_send(tracker.analysis_id, progress_payload(t))
    /\ UNCHANGED notTracker

\* add_timeline_event, lines 112-121
add_timeline_event(event_type, message) ==
    /\ tracker.calls < MaxTrackerCalls
    /\ LET t == [tracker EXCEPT !.timeline_events =
                     Append(@, [timestamp |-> tracker.calls, type |-> event_type,
                                message |-> message, data |-> "{}"])]
       IN  /\ tracker' = Called(t, "add_timeline_event", NoArgs)
           /\ manager_send(tracker.analysis_id, progress_payload(t))
    /\ UNCHANGED notTracker

\* complete, lines 123-135
complete ==
    /\ tracker.calls < MaxTrackerCalls
    /\ LET t == [tracker EXCEPT !.current_stage_idx = Len(stages),
                                !.current_stage_progress = 100,
                                !.terminated = IF @ = "no" THEN "complete" ELSE @]
       IN  /\ tracker' = Called(t, "complete", NoArgs)
           /\ manager_send(tracker.analysis_id, complete_payload(t))
    /\ UNCHANGED notTracker

\* error, lines 137-145: self.stages[self.current_stage_idx] raises IndexError
\* when the index is len(self.stages), before send_progress is called
error(error_message) ==
    /\ tracker.calls < MaxTrackerCalls
    /\ LET t == [tracker EXCEPT !.terminated = IF @ = "no" THEN "error" ELSE @]
       IN  IF tracker.current_stage_idx >= Len(stages)
           THEN /\ tracker' = [Called(t, "error", NoArgs) EXCEPT !.exc = "IndexError"]
                /\ UNCHANGED <<payloads, active_connections, sent, send_exc>>
           ELSE /\ tracker' = Called(t, "error", NoArgs)
                /\ manager_send(tracker.analysis_id, error_payload(t, error_message))
    /\ UNCHANGED notTracker

\* websocket_analysis_progress, api/realtime.py lines 27-32: a client
\* connects and is sent the current state by tracker._send_update()
websocket_analysis_progress(websocket) ==
    /\ tracker.calls < MaxTrackerCalls
    /\ websocket \notin UNION {active_connections[a] : a \in DOMAIN active_connections}
    /\ LET conns == IF tracker.analysis_id \in DOMAIN active_connections
                    THEN active_connections[tracker.analysis_id] \cup {websocket}
                    ELSE {websocket}
       IN  \E order \in IterationOrders(conns) :
              LET r == SendProgress(conns, order, {}, tracker.analysis_id,
                                    progress_payload(tracker))
              IN  /\ sent' = sent \o r.sent
                  /\ send_exc' = r.exc
                  /\ active_connections' =
                        (tracker.analysis_id :> r.connections) @@ active_connections
    /\ payloads' = Append(payloads, progress_payload(tracker))
    /\ tracker' = Called(tracker, "_send_update", NoArgs)
    /\ UNCHANGED notTracker

InitTracker ==
    /\ PipelineIdle
    /\ registry = DefaultRegistry
    /\ BusInit
    /\ CallerInit
    /\ ThreadsIdle
    /\ SingletonReady
    /\ ConnIdle
    /\ AnalyzersIdle
    /\ tracker \in {NewTracker, [NewTracker EXCEPT !.timeline_events = PreloadedNotes(9)]}
    /\ payloads = <<>>

NextTracker ==
    \/ \E s \in TrackerStageIds, p \in TrackerPercents, m \in TrackerMessages :
          update_stage(s, p, m)
    \/ add_timeline_event("info", "note")
    \/ complete
    \/ error("failed")
    \/ \E ws \in {"ws1"} : websocket_analysis_progress(ws)

SpecTracker == InitTracker /\ [][NextTracker]_vars

----------------------------------------------------------------------------
(* The queries of the bus, get_history and get_pipeline_events, between     *)
(* publish and clear_history calls: specification SpecBusQueries.           *)

HistoryLimits == {0, 1, 2, 50}
AgentFilters == {"None", "vision", "extractor"}
EventTypeFilters == {"None", "agent_start", "agent_error"}
\* p3 is an id no event is published with
QueriedPipelineIds == {"p1", "p2", "p3"}

\* get_history(limit, agent_name, event_type), lines 102-109
get_history(limit, agent_name, event_type) ==
    /\ bus_calls < MaxBusCalls
    /\ returned' = [op |-> "get_history", limit |-> limit, agent_name |-> agent_name,
                    event_type |-> event_type, pipeline_id |-> "None",
                    value |-> HistoryQuery(event_history, limit, agent_name, event_type)]
    /\ bus_calls' = bus_calls + 1
    /\ UNCHANGED <<busVars, published, published_to, notBus>>

\* get_pipeline_events(pipeline_id), lines 111-114, called
call_get_pipeline_events(pipeline_id) ==
    /\ bus_calls < MaxBusCalls
    /\ returned' = [op |-> "get_pipeline_events", limit |-> 0, agent_name |-> "None",
                    event_type |-> "None", pipeline_id |-> pipeline_id,
                    value |-> LET events == get_pipeline_events(pipeline_id)
                              IN  [i \in 1..Len(events) |-> to_dict(events[i])]]
    /\ bus_calls' = bus_calls + 1
    /\ UNCHANGED <<busVars, published, published_to, notBus>>

\* a fresh bus, or a bus after max_history publish calls of which the first
\* carried the pipeline id p1
InitBusQueries ==
    /\ PipelineIdle
    /\ registry = DefaultRegistry
    /\ \E n \in {0, max_history} :
          /\ event_history = PreloadedHistory(n)
          /\ published = PreloadedHistory(n)
          /\ published_to = [i \in 1..n |-> IF i = 1 THEN "p1" ELSE "None"]
          /\ pipeline_events = IF n = 0 THEN <<>>
                               ELSE [p \in {"p1"} |-> <<PreloadedHistory(n)[1]>>]
          /\ clock = n
    /\ subscribers = <<>>
    /\ delivered = <<>>
    /\ bus_calls = 0
    /\ returned = NoReturn
    /\ ThreadsIdle
    /\ SingletonReady
    /\ ConnIdle
    /\ AnalyzersIdle
    /\ TrackerIdle

NextBusQueries ==
    \/ \E t \in BusEventTypes, p \in BusPipelineIds : publish("vision", t, NoData, p)
    \/ clear_history
    \/ \E n \in HistoryLimits, a \in AgentFilters, t \in EventTypeFilters : get_history(n, a, t)
    \/ \E p \in QueriedPipelineIds : call_get_pipeline_events(p)

SpecBusQueries == InitBusQueries /\ [][NextBusQueries]_vars

----------------------------------------------------------------------------
(* One analysis of a video by TimeLapseAnalyzer (run_turbo_analysis) or by  *)
(* ParallelFrameAnalyzer.analyze_frames: specification SpecTurbo.           *)

notAnalyzers ==
    <<pipeVars, orchVars, busVars, callerVars, threadVars, singletonVars, connVars,
      trackerVars>>

FrameCounts == {1, 101}
\* which frames fail: none, one in the middle chunk, the first and the last
\* of chunks, or one image file that cv2.imread cannot read
FailureProfiles ==
    {[throwing |-> {}, unreadable |-> {}],
     [throwing |-> {51}, unreadable |-> {}],
     [throwing |-> {1, 50, 101}, unreadable |-> {}],
     [throwing |-> {}, unreadable |-> {2}]}
\* the audio track in samples (0.5 s and 20.5 s) and the windows that throw
AudioProfiles ==
    {[audio_samples |-> 8000, audio_throwing |-> {}],
     [audio_samples |-> 328000, audio_throwing |-> {}],
     [audio_samples |-> 328000, audio_throwing |-> {1}]}

Videos ==
    {[frames |-> n, throwing |-> f.throwing \cap 1..n, unreadable |-> f.unreadable \cap 1..n,
      audio_samples |-> a.audio_samples, audio_throwing |-> a.audio_throwing] :
        n \in FrameCounts, f \in FailureProfiles, a \in AudioProfiles}

\* machines: one or two cores, with and without mediapipe, librosa and
\* the request to use the accelerator
Envs ==
    {[num_cores |-> 1, mediapipe |-> FALSE, librosa |-> FALSE, use_gpu |-> FALSE],
     [num_cores |-> 1, mediapipe |-> TRUE, librosa |-> TRUE, use_gpu |-> TRUE],
     [num_cores |-> 2, mediapipe |-> FALSE, librosa |-> TRUE, use_gpu |-> TRUE],
     [num_cores |-> 2, mediapipe |-> TRUE, librosa |-> TRUE, use_gpu |-> FALSE],
     [num_cores |-> 2, mediapipe |-> TRUE, librosa |-> TRUE, use_gpu |-> TRUE]}

\* the frames a failing ffmpeg process may have written before it exits
PartialWrites(n) == {k \in {0, 1} : k < n}

\* flash_extract_resources, lines 79-131: the directory is recreated, the
\* accelerator is probed when use_gpu, and both ffmpeg processes are started
extract_begin ==
    /\ analyzer = "timelapse"
    /\ extract.pc = "idle"
    /\ \E probe \in (IF env.use_gpu THEN {"cuda", "no_cuda", "raises"} ELSE {"skipped"}) :
          extract' = [extract EXCEPT !.pc = "started",
                                     !.calls = @ + 1,
                                     !.gpu_available = (probe = "cuda"),
                                     !.probes = @ + (IF env.use_gpu THEN 1 ELSE 0),
                                     !.disk = 0,
                                     !.audio_file = FALSE]
    /\ UNCHANGED <<analyzer, video, env, turbo, workers, pf, sizing, notAnalyzers>>

\* line 134: p1.wait() gives the exit code of the frame extraction
extract_video_exit ==
    /\ extract.pc = "started"
    /\ \E code \in {0, 1} :
       \E written \in (IF code = 0 THEN {video.frames} ELSE PartialWrites(video.frames)) :
          extract' = [extract EXCEPT
                        !.pc = IF NeedsFallback(code, extract.gpu_available)
                               THEN "fallback" ELSE "wait_audio",
                        !.video_exit = code,
                        !.disk = written]
    /\ UNCHANGED <<analyzer, video, env, turbo, workers, pf, sizing, notAnalyzers>>

\* lines 135-144: the extraction is run again without the accelerator; the
\* exit code of subprocess.run is not looked at
extract_fallback ==
    /\ extract.pc = "fallback"
    /\ \E code \in {0, 1} :
       \E written \in (IF code = 0 THEN {video.frames} ELSE PartialWrites(video.frames)) :
          extract' = [extract EXCEPT !.pc = "wait_audio",
                                     !.fallback_ran = TRUE,
                                     !.fallback_exit = code,
                                     !.disk = Max(@, written)]
    /\ UNCHANGED <<analyzer, video, env, turbo, workers, pf, sizing, notAnalyzers>>

\* line 146: p2.wait(); the audio file exists when the process succeeded
extract_audio_exit ==
    /\ extract.pc = "wait_audio"
    /\ \E code \in {0, 1} :
          extract' = [extract EXCEPT !.pc = "glob",
                                     !.audio_exit = code,
                                     !.audio_file = (code = 0)]
    /\ UNCHANGED <<analyzer, video, env, turbo, workers, pf, sizing, notAnalyzers>>

\* lines 148-151: return (images, audio_path)
extract_return ==
    /\ extract.pc = "glob"
    /\ extract' = [extract EXCEPT !.pc = "returned", !.images = sorted_glob(extract.disk)]
    /\ UNCHANGED <<analyzer, video, env, turbo, workers, pf, sizing, notAnalyzers>>

\* run_turbo_analysis, lines 413-414: no image was extracted
turbo_no_images ==
    /\ extract.pc = "returned"
    /\ turbo.pc = "idle"
    /\ extract.images = <<>>
    /\ turbo' = [turbo EXCEPT !.pc = "raised", !.exc = "ValueError"]
    /\ UNCHANGED <<analyzer, video, env, extract, workers, pf, sizing, notAnalyzers>>

\* lines 417-437: the images are cut into chunks, the pool of cpu_count()
\* workers is created, the audio job and the chunks are handed to it
turbo_start_pool ==
    /\ extract.pc = "returned"
    /\ turbo.pc = "idle"
    /\ extract.images # <<>>
    /\ LET size == optimal_chunk_size(Len(extract.images), env.num_cores)
           chunks == image_chunks(extract.images, size)
       IN  turbo' = [turbo EXCEPT !.pc = "pool",
                                  !.chunk_size = size,
                                  !.chunks = chunks,
                                  !.results = [k \in 1..Len(chunks) |->
                                                  [done |-> FALSE, items |-> <<>>]]]
    /\ workers' = [w \in 1..env.num_cores |-> IdleWorker]
    /\ UNCHANGED <<analyzer, video, env, extract, pf, sizing, notAnalyzers>>

\* line 439: a worker runs analyze_audio_track(audio_path, 10.0), the first
\* task handed to the pool
audio_job(w) ==
    /\ turbo.pc = "pool"
    /\ workers[w].pc = "idle"
    /\ ~turbo.audio_taken
    /\ turbo' = [turbo EXCEPT !.audio_taken = TRUE,
                              !.audio_done = TRUE,
                              !.audio_timeline =
                                  analyze_audio_track(video, env, extract.audio_file)]
    /\ UNCHANGED <<analyzer, video, env, extract, workers, pf, sizing, notAnalyzers>>

\* analyze_vision_batch, lines 169-186: a worker takes the next chunk and
\* creates the Pose model (when mediapipe is there and the creation does not
\* throw) and the Haar cascade
batch_begin(w) ==
    /\ turbo.pc = "pool"
    /\ workers[w].pc = "idle"
    /\ turbo.audio_taken
    /\ turbo.next_chunk <= Len(turbo.chunks)
    /\ \E pose \in (IF env.mediapipe THEN BOOLEAN ELSE {FALSE}) :
          /\ workers' = [workers EXCEPT ![w] = [pc |-> "frames", chunk |-> turbo.next_chunk,
                                                model |-> pose, results |-> <<>>]]
          /\ turbo' = [turbo EXCEPT !.next_chunk = @ + 1,
                                    !.inits = @ + (IF pose THEN 1 ELSE 0)]
    /\ UNCHANGED <<analyzer, video, env, extract, pf, sizing, notAnalyzers>>

\* lines 188-251: the loop over the images of the chunk
batch_frames(w) ==
    /\ workers[w].pc = "frames"
    /\ workers' = [workers EXCEPT
                     ![w].pc = "close",
                     ![w].results = analyze_vision_batch(video, turbo.chunks[workers[w].chunk])]
    /\ UNCHANGED <<analyzer, video, env, extract, turbo, pf, sizing, notAnalyzers>>

\* lines 253-257: mp_pose.close() when a model was created, return results
batch_end(w) ==
    /\ workers[w].pc = "close"
    /\ turbo' = [turbo EXCEPT !.releases = @ + (IF workers[w].model THEN 1 ELSE 0),
                              !.results[workers[w].chunk] =
                                  [done |-> TRUE, items |-> workers[w].results]]
    /\ workers' = [workers EXCEPT ![w] = IdleWorker]
    /\ UNCHANGED <<analyzer, video, env, extract, pf, sizing, notAnalyzers>>

RECURSIVE Flatten(_)
\* [item for sublist in vision_results_list for item in sublist], line 452
Flatten(results) ==
    IF results = <<>> THEN <<>> ELSE Head(results).items \o Flatten(Tail(results))

\* lines 442-475: pool.map and audio_job.get() have returned; the chunk
\* results are merged in chunk order and sorted by 'sec'
turbo_merge ==
    /\ turbo.pc = "pool"
    /\ turbo.audio_done
    /\ \A k \in 1..Len(turbo.results) : turbo.results[k].done
    /\ turbo' = [turbo EXCEPT !.pc = "returned",
                              !.timeline = LET merged == Flatten(turbo.results)
                                           IN  SortByKey(merged,
                                                   [i \in 1..Len(merged) |-> merged[i].sec])]
    /\ UNCHANGED <<analyzer, video, env, extract, workers, pf, sizing, notAnalyzers>>

\* ---- ParallelFrameAnalyzer.analyze_frames ----

\* what happens to the task of a frame: it returns both records, _analyze_vision
\* or _analyze_content throws inside the try of analyze_single_frame, or the
\* task itself fails so that future.result() raises
FrameOutcomes == {"ok", "vision_raises", "content_raises", "task_raises"}

FrameLists ==
    {<<>>}
    \cup {[i \in 1..n |-> [timestamp |-> i - 1, outcome |-> o[i]]] :
             n \in {3}, o \in [1..3 -> FrameOutcomes]}

\* analyze_frames, lines 169-190: nothing to do for no frames, else one task
\* per frame is submitted to the executor
pf_submit ==
    /\ analyzer = "parallel"
    /\ pf.pc = "idle"
    /\ pf' = IF pf.frames = <<>>
             THEN [pf EXCEPT !.pc = "returned"]
             ELSE [pf EXCEPT !.pc = "running", !.pending = 1..Len(pf.frames)]
    /\ UNCHANGED <<analyzer, video, env, extract, turbo, workers, sizing, notAnalyzers>>

\* lines 193-205: as_completed yields the future of frame i; its result is
\* appended to both lists, unless future.result() raises.  The task creates
\* a CascadeClassifier for its frame (_analyze_vision, lines 63-65)
pf_complete(i) ==
    /\ pf.pc = "running"
    /\ i \in pf.pending
    /\ LET frame == pf.frames[i]
           result == analyze_single_frame(frame)
       IN  pf' = IF frame.outcome = "task_raises"
                 THEN [pf EXCEPT !.pending = @ \ {i}, !.order = Append(@, i)]
                 ELSE [pf EXCEPT !.pending = @ \ {i},
                                 !.order = Append(@, i),
                                 !.vision_results = Append(@, result.vision),
                                 !.content_results = Append(@, result.content),
                                 !.inits = @ + 1]
    /\ UNCHANGED <<analyzer, video, env, extract, turbo, workers, sizing, notAnalyzers>>

\* lines 207-213: both lists are sorted by x.get("timestamp", 0) and returned
pf_sort_return ==
    /\ pf.pc = "running"
    /\ pf.pending = {}
    /\ pf' = [pf EXCEPT !.pc = "returned",
                        !.vision_results =
                            SortByKey(@, [i \in 1..Len(@) |-> timestamp_or_0(@[i])]),
                        !.content_results =
                            SortByKey(@, [i \in 1..Len(@) |-> timestamp_or_0(@[i])])]
    /\ UNCHANGED <<analyzer, video, env, extract, turbo, workers, sizing, notAnalyzers>>

InitTurbo ==
    /\ PipelineIdle
    /\ registry = DefaultRegistry
    /\ BusInit
    /\ CallerInit
    /\ ThreadsIdle
    /\ SingletonReady
    /\ ConnIdle
    /\ TrackerIdle
    /\ analyzer \in {"timelapse", "parallel"}
    /\ IF analyzer = "timelapse"
       THEN video \in Videos /\ env \in Envs /\ pf = PfIdle
       ELSE /\ video = NoVideo
            /\ env \in {e \in Envs : e.num_cores = 2 /\ e.mediapipe /\ e.use_gpu}
            /\ pf \in {[PfIdle EXCEPT !.frames = f] : f \in FrameLists}
    /\ extract = ExtractIdle
    /\ turbo = TurboIdle
    /\ workers = <<>>
    /\ sizing = SizingIdle

NextTurbo ==
    \/ extract_begin
    \/ extract_video_exit
    \/ extract_fallback
    \/ extract_audio_exit
    \/ extract_return
    \/ turbo_no_images
    \/ turbo_start_pool
    \/ \E w \in DOMAIN workers : audio_job(w)
    \/ \E w \in DOMAIN workers : batch_begin(w)
    \/ \E w \in DOMAIN workers : batch_frames(w)
    \/ \E w \in DOMAIN workers : batch_end(w)
    \/ turbo_merge
    \/ pf_submit
    \/ \E i \in 1..3 : pf_complete(i)
    \/ pf_sort_return

SpecTurbo == InitTurbo /\ [][NextTurbo]_vars

----------------------------------------------------------------------------
(* flash_extract_resources called several times by one process:            *)
(* specification SpecExtractCalls.                                         *)

MaxExtractCalls == 3

\* the caller calls flash_extract_resources again after it has returned;
\* the locals of the finished call are gone, what the process keeps between
\* calls is nothing (lines 84-93 hold no module-level cache), the counters
\* calls and probes are kept for the properties
extract_again ==
    /\ analyzer = "timelapse"
    /\ turbo.pc = "idle"
    /\ extract.pc = "returned"
    /\ extract.calls < MaxExtractCalls
    /\ extract' = [ExtractIdle EXCEPT !.calls = extract.calls, !.probes = extract.probes]
    /\ UNCHANGED <<analyzer, video, env, turbo, workers, pf, sizing, notAnalyzers>>

InitExtractCalls ==
    /\ PipelineIdle
    /\ registry = DefaultRegistry
    /\ BusInit
    /\ CallerInit
    /\ ThreadsIdle
    /\ SingletonReady
    /\ ConnIdle
    /\ TrackerIdle
    /\ analyzer = "timelapse"
    /\ video \in {v \in Videos : v.throwing = {} /\ v.unreadable = {} /\ v.audio_throwing = {}}
    /\ env \in Envs
    /\ extract = ExtractIdle
    /\ turbo = TurboIdle
    /\ workers = <<>>
    /\ pf = PfIdle
    /\ sizing = SizingIdle

NextExtractCalls ==
    \/ extract_begin
    \/ extract_video_exit
    \/ extract_fallback
    \/ extract_audio_exit
    \/ extract_return
    \/ extract_again

SpecExtractCalls == InitExtractCalls /\ [][NextExtractCalls]_vars

----------------------------------------------------------------------------
(* The chunk sizing of run_turbo_analysis (lines 417-429) for every number  *)
(* of extracted frames and of cores: specification SpecChunking.            *)

MaxFrames == 1200
MaxCores == 8

\* lines 417-429: from total_images and cpu_count() to the chunks
compute_chunks ==
    /\ sizing.pc = "idle"
    /\ sizing' = [sizing EXCEPT
                    !.pc = "chunked",
                    !.initial_size = initial_chunk_size(sizing.total_images, sizing.num_cores),
                    !.chunk_size = optimal_chunk_size(sizing.total_images, sizing.num_cores),
                    !.chunks = number_of_chunks(sizing.total_images,
                                   optimal_chunk_size(sizing.total_images, sizing.num_cores))]
    /\ UNCHANGED <<analyzer, video, env, extract, turbo, workers, pf, notAnalyzers>>

InitChunking ==
    /\ PipelineIdle
    /\ registry = DefaultRegistry
    /\ BusInit
    /\ CallerInit
    /\ ThreadsIdle
    /\ SingletonReady
    /\ ConnIdle
    /\ TrackerIdle
    /\ analyzer = "timelapse"
    /\ video = NoVideo
    /\ env = NoEnv
    /\ extract = ExtractIdle
    /\ turbo = TurboIdle
    /\ workers = <<>>
    /\ pf = PfIdle
    /\ \E n \in 1..MaxFrames, c \in 1..MaxCores :
          sizing = [SizingIdle EXCEPT !.total_images = n, !.num_cores = c]

NextChunking == compute_chunks

SpecChunking == InitChunking /\ [][NextChunking]_vars

----------------------------------------------------------------------------
(* Properties of the pipeline run (specification Spec) *)

RunStored == PipelineId \in DOMAIN pipeline_store
Run == pipeline_store[PipelineId]
StatusOf == IF RunStored THEN Run.status ELSE "absent"

ValidStatusStep(s, t) ==
    <<s, t>> \in { <<"absent", "queued">>, <<"queued", "running">>,
                   <<"running", "completed">>, <<"running", "failed">> }

\* C1: every change of the run's status in pipeline_store is one of
\* (created) -> queued, queued -> running, running -> completed,
\* running -> failed: running is never skipped, the status never regresses
\* and a completed or failed status never changes again.
C1_StatusPath ==
    [][StatusOf' # StatusOf => ValidStatusStep(StatusOf, StatusOf')]_vars

C1_Witness ==
    /\ StatusOf = "completed"
    /\ Len(event_history) > 0
    /\ pc = "done"

ErrorEventsOf(log, a) ==
    {i \in 1..Len(log) : log[i].event_type = "agent_error" /\ log[i].agent_name = a}

OnlyVisionFailed ==
    /\ registry = ScenarioRegistry
    /\ DOMAIN agents = DOMAIN registry
    /\ agents["vision"] = "error"
    /\ \A a \in DOMAIN agents \ {"vision"} : agents[a] = "done"
    /\ pc = "done"

\* C2: with the registry extractor / vision, content / scorer, a run in which
\* vision (and only vision) throws ends completed, scorer has been executed
\* with the placeholder in vision's slot and content's real output in
\* content's slot, and the run's event log holds exactly one error event for
\* vision.
C2_VisionFailureScenario ==
    OnlyVisionFailed =>
        /\ StatusOf = "completed"
        /\ inputs["scorer"] = [d \in {"vision", "content"} |->
                                  IF d = "vision" THEN "placeholder" ELSE "real"]
        /\ Cardinality(ErrorEventsOf(get_pipeline_events(PipelineId), "vision")) = 1

C2_Witness == OnlyVisionFailed

\* the agents whose failure aborted the run
FatalAgents ==
    {a \in DOMAIN agents : agents[a] = "error" /\ policy[registry[a].phase] = "fatal"}

StartedLater(a) ==
    {b \in DOMAIN agents :
        /\ PhaseIndex(registry[b].phase) > PhaseIndex(registry[a].phase)
        /\ \/ agents[b] # "idle"
           \/ \E i \in 1..Len(event_history) :
                 /\ event_history[i].event_type = "agent_start"
                 /\ event_history[i].agent_name = b}

\* C3: when an agent of a sequential phase without fallback has raised, the
\* run is never completed, no agent of a later phase is started (no start
\* event for it), and once the task has ended the status is failed with the
\* error recorded; a run is failed only if an agent outside the analyze
\* phase raised.
C3_FatalFailure ==
    /\ \A a \in FatalAgents :
          /\ ~IsParallel(registry[a].phase)
          /\ StatusOf # "completed"
          /\ StartedLater(a) = {}
          /\ pc = "done" => (StatusOf = "failed" /\ Run.error # "absent")
    /\ StatusOf = "failed" =>
          \E a \in DOMAIN agents : agents[a] = "error" /\ registry[a].phase # "analyze"

C3_Witness ==
    /\ FatalAgents # {}
    /\ pc = "done"
    /\ StatusOf = "failed"

\* C4: when the background task has ended (returned or raised), the run
\* it was created for is completed or failed.
C4_TaskEndsTerminal ==
    (pc = "done" /\ RunStored) => StatusOf \in {"completed", "failed"}

\* the phase order the claim names
PhaseRank(ph) ==
    CASE ph = "extract" -> 1 [] ph = "analyze" -> 2 [] ph = "evaluate" -> 3
      [] ph = "feedback" -> 4 [] ph = "synthesize" -> 5

FinishedBefore(a, i) ==
    \E j \in 1..(i - 1) :
        /\ event_history[j].agent_name = a
        /\ event_history[j].event_type \in {"agent_done", "agent_error"}

\* C5: a start event of an agent is published only after every agent of
\* every earlier phase has published done or error; pedagogy is never
\* started while vision, content, stt or vibe is idle or still running.
C5_PhaseBarrier ==
    /\ \A i \in 1..Len(event_history) :
          event_history[i].event_type = "agent_start" =>
              \A a \in DOMAIN registry :
                  PhaseRank(registry[a].phase)
                      < PhaseRank(registry[event_history[i].agent_name].phase)
                  => FinishedBefore(a, i)
    /\ ("pedagogy" \in DOMAIN agents /\ agents["pedagogy"] # "idle") =>
          \A a \in {"vision", "content", "stt", "vibe"} : Finalized(agents, a)

C5_Witness ==
    /\ "pedagogy" \in DOMAIN agents
    /\ agents["pedagogy"] = "running"
    /\ agents["vibe"] = "error"
    /\ event_history[Len(event_history) - 1].agent_name = "vision"

\* C6: a registry whose dependency graph has a cycle or names an
\* unregistered agent is rejected before any run starts: no agent is
\* invoked and no start event is published.
C6_InvalidRegistryRejected ==
    (HasCycle(registry) \/ HasUndeclaredDependency(registry)) =>
        /\ orch_status = "none"
        /\ \A a \in DOMAIN agents : agents[a] = "idle"
        /\ \A i \in 1..Len(event_history) : event_history[i].event_type # "agent_start"
        /\ pc \notin {"run_pipeline", "return_status", "except_status"}

C6_Witness ==
    /\ HasCycle(registry)
    /\ pc = "done"
    /\ exc = "RegistryError"

\* C7: a completed run has progress 100, a result and a completed_at time;
\* a failed run has its error set and no result; a queued or running run
\* has neither result nor error.
C7_StoreConsistent ==
    RunStored =>
        /\ Run.status = "completed" =>
              (Run.progress = 100 /\ Run.result # "None" /\ Run.completed_at # "absent")
        /\ Run.status = "failed" => (Run.error # "absent" /\ Run.result = "None")
        /\ Run.status \in {"queued", "running"} =>
              (Run.result = "None" /\ Run.error = "absent")

----------------------------------------------------------------------------
(* Properties of the message bus *)

\* C8: the global history never holds more than the cap and is exactly the
\* last min(n, cap) of the n events published since the last clear, in
\* publication order (the oldest event is the one evicted).
C8_HistoryFifoCapped ==
    LET n == Len(published)
        k == Min(n, max_history)
    IN  /\ Len(event_history) <= max_history
        /\ Len(event_history) = k
        /\ \A i \in 1..k : event_history[i] = published[n - k + i]

C8_Witness ==
    /\ Len(published) = max_history + 2
    /\ Len(event_history) = max_history
    /\ event_history[1].timestamp = 2

\* the callback invocations made by the step
NewDeliveries == SubSeq(delivered', Len(delivered) + 1, Len(delivered'))

\* the step is a call of publish
PublishStep == Len(published') = Len(published) + 1

\* callbacks registered for some type, but neither for t nor for "*"
RegisteredOnlyElsewhere(subs, t) ==
    {cb \in Callbacks :
        /\ \E u \in DOMAIN subs : cb \in Range(subs[u])
        /\ cb \notin Range(SubscribersGet(subs, t)) \cup Range(SubscribersGet(subs, "*"))}

\* C11: a publish of an event of type t has recorded the event in the
\* history (and in the run's log when a pipeline id is given) before any
\* callback is called; it calls the callbacks registered for t, once per
\* registration and in registration order, then those registered for "*",
\* once per registration; callbacks registered only for other types are
\* not called.
C11_PublishOrder ==
    [][PublishStep =>
        LET e == published'[Len(published')]
            p == published_to'[Len(published_to')]
            typed == SubscribersGet(subscribers, e.event_type)
            wild == SubscribersGet(subscribers, "*")
            d == NewDeliveries
        IN  /\ event_history'[Len(event_history')] = e
            /\ p # "None" => pipeline_events'[p][Len(pipeline_events'[p])] = e
            /\ Len(d) = Len(typed) + Len(wild)
            /\ \A i \in 1..Len(d) : d[i].event = e /\ d[i].recorded
            /\ \A i \in 1..Len(typed) : d[i].callback = typed[i]
            /\ \A i \in 1..Len(wild) : d[Len(typed) + i].callback = wild[i]
            /\ \A i \in 1..Len(d) :
                  d[i].callback \notin RegisteredOnlyElsewhere(subscribers, e.event_type)
    ]_vars

C11_Witness ==
    /\ "agent_start" \in DOMAIN subscribers /\ subscribers["agent_start"] = <<"cb1">>
    /\ "*" \in DOMAIN subscribers /\ subscribers["*"] = <<"cb2">>
    /\ Len(delivered) = 2
    /\ delivered[1].callback = "cb1" /\ delivered[2].callback = "cb2"
    /\ delivered[1].event = delivered[2].event
    /\ delivered[1].event.event_type = "agent_start"
    /\ delivered[1].recorded /\ delivered[2].recorded
    /\ published_to = <<"p1">>
    /\ get_pipeline_events("p1") = <<delivered[1].event>>

\* the send_text calls made by the step
NewSends == SubSeq(sent', Len(sent) + 1, Len(sent'))

MostRecent(s, n) == SubSeq(s, Len(s) - Min(n, Len(s)) + 1, Len(s))

\* the events of the history that pass the filters of the call
Matching(history, agent_name, event_type) ==
    SelectSeq(history, LAMBDA e :
        /\ (agent_name # "None" => e.agent_name = agent_name)
        /\ (event_type # "None" => e.event_type = event_type))

\* C13: for every limit N >= 0 and every combination of the agent-name and
\* event-type filters, get_history returns at most N events, namely the N
\* most recently published events of the history that match all the given
\* filters (all of them when fewer match), oldest first, and the call
\* leaves the history unchanged.
C13_HistoryMostRecent ==
    [][(bus_calls' = bus_calls + 1 /\ returned'.op = "get_history") =>
        LET r == returned'
        IN  /\ Len(r.value) <= r.limit
            /\ r.value = MostRecent(Matching(event_history, r.agent_name, r.event_type), r.limit)
            /\ event_history' = event_history
    ]_vars

\* the events published with pipeline id p since the last clear, in order
PublishedWith(p) ==
    LET idx == SelectSeq([i \in 1..Len(published) |-> i], LAMBDA i : published_to[i] = p)
    IN  [k \in 1..Len(idx) |-> published[idx[k]]]

\* C14: for every pipeline id p, get_pipeline_events(p) is exactly the
\* sequence of the events published with id p since the last clear, in
\* publication order, also when some of them were evicted from the capped
\* history; events published with another id or without id are not in it,
\* and an id nothing was published with yields the empty list.
C14_PipelineLogComplete ==
    /\ \A p \in QueriedPipelineIds : get_pipeline_events(p) = PublishedWith(p)
    /\ returned.op = "get_pipeline_events" =>
          /\ returned.value = PublishedWith(returned.pipeline_id)
          /\ returned.pipeline_id = "p3" => returned.value = <<>>

C14_Witness ==
    /\ returned.op = "get_pipeline_events"
    /\ returned.pipeline_id = "p1"
    /\ Len(returned.value) = 2
    /\ returned.value[1] \notin Range(event_history)
    /\ Len(event_history) = max_history
    /\ \E i \in 1..Len(published) : published_to[i] = "p2"


AllThreadsDone == \A t \in Threads : th[t].pc = "done"

\* the call of thread t applied as a whole to a history and subscriber map
ApplyCall(state, t) ==
    LET c == th[t].call
    IN  CASE c.op = "publish" ->
                [state EXCEPT !.history = HistoryAfterPublish(@, th[t].event)]
          [] c.op = "subscribe" ->
                [state EXCEPT !.subscribers = SubscribersAfterSubscribe(@, c.event_type, c.arg)]
          [] c.op = "unsubscribe" ->
                [state EXCEPT !.subscribers = SubscribersAfterUnsubscribe(@, c.event_type, c.arg)]

SequentialOutcomes ==
    {ApplyCall(ApplyCall(lin_init, o[1]), o[2]) : o \in {p \in Threads \X Threads : p[1] # p[2]}}

\* C9: after concurrent publish / subscribe / unsubscribe calls the history
\* buffer and the subscriber map equal those of some sequential execution
\* of the same calls (no event lost, cap respected, no subscription lost).
C9_Linearizable ==
    (DOMAIN th = Threads /\ AllThreadsDone) =>
        [history |-> lists[history_ref], subscribers |-> SubscribersValue]
            \in SequentialOutcomes


SameInstance ==
    \A t \in Threads, u \in Threads :
        (gth[t].result # "none" /\ gth[u].result # "none") => gth[t].result = gth[u].result

\* nothing recorded on the bus is lost in this step
NothingDiscarded ==
    /\ Len(event_history') >= Len(event_history)
    /\ \A k \in DOMAIN subscribers :
          k \in DOMAIN subscribers' /\ Len(subscribers'[k]) >= Len(subscribers[k])
    /\ \A p \in DOMAIN pipeline_events :
          p \in DOMAIN pipeline_events' /\ Len(pipeline_events'[p]) >= Len(pipeline_events[p])

\* C10: all calls of get_message_bus() return the same instance, and no
\* step of a call discards subscribers, history or per-pipeline logs that
\* were recorded on it.
C10_SingletonKeepsState ==
    [][SameInstance' /\ NothingDiscarded]_vars

----------------------------------------------------------------------------
(* Properties of the analyzers *)

\* how many records of the timeline carry the timestamp t
RecordsAt(timeline, t) ==
    Cardinality({i \in 1..Len(timeline) :
                    "timestamp" \in DOMAIN timeline[i] /\ timeline[i].timestamp = t})

HasTimestamps(timeline) ==
    \A i \in 1..Len(timeline) : "timestamp" \in DOMAIN timeline[i]

\* one record for each frame whose analysis did not throw, none for the others
OneRecordPerAnalysedFrame(timeline, frames, thrown) ==
    \A f \in frames : RecordsAt(timeline, f) = IF f \in thrown THEN 0 ELSE 1

\* the timestamps of the frames of analyze_frames, and of those that threw
PfTimestamps == {pf.frames[i].timestamp : i \in 1..Len(pf.frames)}
PfThrown == {pf.frames[i].timestamp : i \in {j \in 1..Len(pf.frames) : pf.frames[j].outcome # "ok"}}

\* C15: the merged frame timeline holds exactly one record for each input
\* frame whose analysis did not throw and none for a frame whose analysis
\* threw, and no record without timestamp, whatever the chunking and the
\* failing frames (run_turbo_analysis and analyze_frames).
C15_TimelineExact ==
    /\ turbo.pc = "returned" =>
          /\ OneRecordPerAnalysedFrame(turbo.timeline, Range(extract.images), video.throwing)
          /\ HasTimestamps(turbo.timeline)
          /\ Len(turbo.timeline) = Cardinality(Range(extract.images) \ video.throwing)
    /\ pf.pc = "returned" =>
          /\ OneRecordPerAnalysedFrame(pf.vision_results, PfTimestamps, PfThrown)
          /\ OneRecordPerAnalysedFrame(pf.content_results, PfTimestamps, PfThrown)
          /\ HasTimestamps(pf.vision_results)
          /\ HasTimestamps(pf.content_results)

\* the timestamps of the records that have one, in the order of the timeline
TimestampsOf(timeline) ==
    LET with == SelectSeq(timeline, LAMBDA r : "timestamp" \in DOMAIN r)
    IN  [i \in 1..Len(with) |-> with[i].timestamp]

NonDecreasing(ts) == \A i \in 1..Len(ts) : \A j \in i..Len(ts) : ts[i] <= ts[j]

\* sorting the timeline again by the key the code sorts it with changes nothing
SortedAgainIsSame(timeline) ==
    SortByKey(timeline, [i \in 1..Len(timeline) |-> timestamp_or_0(timeline[i])]) = timeline

\* C16: in whatever order the worker jobs complete, the frame timeline and
\* the audio timeline that are returned are non-decreasing in timestamp,
\* and sorting a returned timeline again yields the same sequence.
C16_TimelinesSorted ==
    /\ turbo.pc = "returned" =>
          /\ NonDecreasing(TimestampsOf(turbo.timeline))
          /\ NonDecreasing(TimestampsOf(turbo.audio_timeline))
          /\ SortedAgainIsSame(turbo.timeline)
          /\ SortedAgainIsSame(turbo.audio_timeline)
    /\ pf.pc = "returned" =>
          /\ NonDecreasing(TimestampsOf(pf.vision_results))
          /\ NonDecreasing(TimestampsOf(pf.content_results))
          /\ SortedAgainIsSame(pf.vision_results)
          /\ SortedAgainIsSame(pf.content_results)

C16_Witness ==
    /\ pf.pc = "returned"
    /\ pf.order = <<3, 1, 2>>
    /\ TimestampsOf(pf.vision_results) = <<0, 1, 2>>
    /\ TimestampsOf(pf.content_results) = <<0, 1, 2>>

\* C17: for 1000 extracted frames and 8 workers the chunk size lies in
\* [50, 100] and the number of chunks in [8, 16].
C17_Scenario1000Frames8Workers ==
    (sizing.pc = "chunked" /\ sizing.total_images = 1000 /\ sizing.num_cores = 8) =>
        /\ sizing.chunk_size >= 50 /\ sizing.chunk_size <= 100
        /\ sizing.chunks >= 8 /\ sizing.chunks <= 16

C17_Witness ==
    /\ sizing.pc = "chunked"
    /\ sizing.total_images = 1000
    /\ sizing.num_cores = 8
    /\ sizing.chunk_size = 100
    /\ sizing.chunks = 10

\* C18: for every frame count >= 1 and worker count >= 1 the chunk size
\* starts as clamp(50, 100, frames / workers) and is only adjusted upward,
\* and the number of chunks is at least 1.5 times and at most 2 times the
\* worker count.
C18_ChunkCountWithinBand ==
    sizing.pc = "chunked" =>
        /\ sizing.initial_size = Max(50, Min(100, sizing.total_images \div sizing.num_cores))
        /\ sizing.chunk_size >= sizing.initial_size
        /\ 2 * sizing.chunks >= 3 * sizing.num_cores
        /\ sizing.chunks <= 2 * sizing.num_cores

\* C19: a run initialises at most one analysis model per worker, none per
\* frame, and releases every initialised model exactly once.
C19_ModelOncePerWorker ==
    /\ turbo.pc = "returned" =>
          /\ turbo.inits <= env.num_cores
          /\ turbo.releases = turbo.inits
    /\ pf.pc = "returned" => pf.inits <= max_workers(env)

\* C20: whenever the hardware-accelerated frame extraction exits non-zero,
\* the extraction is run again on the software path and, that run and the
\* audio extraction succeeding, flash_extract_resources returns all frames
\* in order (a non-empty list) and an existing audio file.
C20_HardwareFallback ==
    (extract.pc = "returned" /\ extract.gpu_available /\ extract.video_exit # 0) =>
        /\ extract.fallback_ran
        /\ (extract.fallback_exit = 0 /\ extract.audio_exit = 0) =>
              /\ extract.images # <<>>
              /\ extract.images = [i \in 1..video.frames |-> i]
              /\ extract.audio_file

C20_Witness ==
    /\ extract.pc = "returned"
    /\ extract.gpu_available
    /\ extract.video_exit # 0
    /\ extract.fallback_ran
    /\ extract.fallback_exit = 0
    /\ extract.audio_exit = 0
    /\ Len(extract.images) = 101
    /\ extract.audio_file

\* the frame extraction finally failed: the software run made after a
\* hardware failure exited non-zero, or the only run, made without the
\* accelerator, exited non-zero
SoftwareExtractionFailed ==
    /\ extract.pc \in {"wait_audio", "glob", "returned"}
    /\ \/ extract.fallback_ran /\ extract.fallback_exit # 0
       \/ ~extract.gpu_available /\ extract.video_exit # 0

\* C21: when the software extraction path fails too, the turbo run ends
\* with an error: no analysis job is handed to the pool and no result is
\* returned, also when the failed process had written some frames.
C21_SoftwareFailureIsFatal ==
    SoftwareExtractionFailed =>
        /\ turbo.pc \notin {"pool", "returned"}
        /\ workers = <<>>
        /\ extract.pc = "returned" /\ turbo.pc # "idle" => turbo.exc = "ValueError"

\* the audio job has run on a track that could be loaded
AudioAnalysed ==
    turbo.audio_done /\ env.librosa /\ extract.audio_file

WindowLength(seg_idx, len_y) == Min(seg_idx + segment_samples, len_y) - seg_idx

RECURSIVE SamplesCovered(_, _)
SamplesCovered(w, len_y) ==
    IF w = <<>> THEN 0 ELSE WindowLength(Head(w), len_y) + SamplesCovered(Tail(w), len_y)

\* C24: the analysed windows are contiguous and non-overlapping and cover
\* the whole track: window k starts at k times the segment duration and
\* every sample of the track belongs to exactly one analysed window.
C24_WindowsCoverTrack ==
    AudioAnalysed =>
        LET w == audio_windows(video.audio_samples)
        IN  /\ \A k \in 1..Len(w) : w[k] = (k - 1) * segment_samples
            /\ Len(turbo.audio_timeline) = Len(w)
            /\ SamplesCovered(w, video.audio_samples) = video.audio_samples

\* C22: over any sequence of extract calls of one process the
\* accelerator-availability probe is executed at most once.
C22_ProbeOncePerProcess ==
    extract.probes <= 1

----------------------------------------------------------------------------
(* Properties of the progress tracker *)

RECURSIVE WeightsFrom(_, _)
\* the sum of the weights of the stages lo..hi (1-based positions)
WeightsFrom(lo, hi) ==
    IF lo > hi THEN 0 ELSE stages[lo].weight + WeightsFrom(lo + 1, hi)

LastPayload == payloads[Len(payloads)]

\* the overall progress a tracker in state t should report, in hundredths:
\* the weights of the stages before the current one plus the current
\* stage's weight times percent / 100
ExpectedProgress(t) ==
    100 * WeightsFrom(1, t.current_stage_idx)
    + (IF t.current_stage_idx < Len(stages)
       THEN stages[t.current_stage_idx + 1].weight * t.current_stage_progress
       ELSE 0)

UpdateCall ==
    /\ tracker'.calls = tracker.calls + 1
    /\ tracker'.last_call \in {"update_stage", "add_timeline_event"}

\* C26: complete and error are terminal: after either has been called, no
\* later update_stage or add_timeline_event call changes the current stage,
\* the stage percent or the overall progress, and none sends a payload;
\* after complete the overall progress stays 100.
C26_TerminalStopsUpdates ==
    [][(tracker.terminated # "no" /\ UpdateCall) =>
          /\ tracker'.current_stage_idx = tracker.current_stage_idx
          /\ tracker'.current_stage_progress = tracker.current_stage_progress
          /\ get_overall_progress(tracker') = get_overall_progress(tracker)
          /\ payloads' = payloads
          /\ tracker.terminated = "complete" => get_overall_progress(tracker') = 1000]_vars

\* C27: update_stage is idempotent: a second call in a row with the same
\* stage id, percent and message leaves current stage, stage percent,
\* overall progress and retained notes as the first call left them.
C27_UpdateStageIdempotent ==
    [][(/\ tracker.last_call = "update_stage"
        /\ tracker'.last_call = "update_stage"
        /\ tracker'.calls = tracker.calls + 1
        /\ tracker'.last_args = tracker.last_args) =>
          /\ tracker'.current_stage_idx = tracker.current_stage_idx
          /\ tracker'.current_stage_progress = tracker.current_stage_progress
          /\ get_overall_progress(tracker') = get_overall_progress(tracker)
          /\ tracker'.timeline_events = tracker.timeline_events]_vars

\* the largest number of notes any payload carries (complete, line 133)
timeline_cap == 10

\* C28: the notes retained by the tracker form a capped ring buffer: their
\* number never exceeds the cap, and a call that appends to a full buffer
\* discards the oldest note, keeping the most recent ones in order.
C28_TimelineCapped ==
    Len(tracker.timeline_events) <= timeline_cap

\* C30: in every reachable tracker state, also after complete(), error(message)
\* returns normally and sends one payload of type error with the message, the
\* overall progress and the name of the current stage.
C30_ErrorNeverRaises ==
    tracker.last_call = "error" =>
        /\ tracker.exc = "none"
        /\ payloads # <<>>
        /\ LastPayload.type = "error"
        /\ LastPayload.message = "failed"
        /\ LastPayload.progress = get_overall_progress(tracker)
        /\ LastPayload.stage = stage_at(tracker.current_stage_idx).name

----------------------------------------------------------------------------
(* Properties of send_progress under concurrent connect and disconnect *)

\* C29: send_progress never raises and never skips a connection that stays
\* registered, even when connect or disconnect for the same analysis id
\* runs while it is suspended in a send: the walk over the connection set is
\* not disturbed, and the removal of the last connection does not make the
\* clean-up of failed connections fail.
C29_SendProgressSafeUnderChurn ==
    /\ send_exc = "none"
    /\ sp.pc = "done" => sp.stayed \subseteq sp.visited

====
